---- MODULE Spec2Model ----
(***************************************************************************)
(* Model of the simple-pdf document writer (src/src/lib.rs): the Pdf       *)
(* struct, its object allocation, the buffered output with tell(), the     *)
(* page rendering protocol and the trailer written by finish.              *)
(*                                                                         *)
(* The output is modelled as a sequence of tokens, one per write!/writeln! *)
(* group of the source.  Every token carries the number of bytes the       *)
(* format string produces, so that byte offsets are computed from what is  *)
(* written, as BufWriter::seek(SeekFrom::Current(0)) reports them.         *)
(***************************************************************************)
EXTENDS Integers, Sequences, FiniteSets, TLC

\* ------------------------------------------------------------------ bounds
\* Number of render_page calls explored on one document.
MaxCalls == 2

\* ------------------------------------------------------- program constants
ROOT_OBJECT_ID == 1
PAGE_OBJECT_ID == 2

\* ------------------------------------------------------------ input domains
\* The builtin fonts the callbacks request (two of the fourteen).
Fonts == {"Helvetica", "Symbol"}
\* Metadata values.
Strings == {"a", "bc"}
\* Which flush of an operation fails, counted from the operation's first tell()
\* (0: none fails); the flush of BufWriter::drop is counted with them.
IoFailures == 0..9
\* Page sizes handed to render_page (width, height), in points.
PageSizes == {<<180, 240>>}
\* MetaData keys the set_* methods insert, in the derived Ord order of the
\* enum (BTreeMap iterates in this order).
MetaOrder == <<"Author", "Creator", "Keywords", "Producer", "Subject", "Title">>
MetaKeys == {MetaOrder[i] : i \in 1..Len(MetaOrder)}

\* --------------------------------------------------------------- utilities
RECURSIVE Digits(_)
\* Number of characters of "{}" applied to a non-negative integer.
Digits(n) == IF n < 10 THEN 1 ELSE 1 + Digits(n \div 10)

\* Number of characters of "{:010}" applied to a non-negative integer.
Digits010(n) == IF Digits(n) < 10 THEN 10 ELSE Digits(n)

RECURSIVE Bytes(_)
\* Number of bytes of a token sequence (summed by halves).
Bytes(toks) ==
    IF toks = <<>> THEN 0
    ELSE IF Len(toks) = 1 THEN toks[1].n
    ELSE Bytes(SubSeq(toks, 1, Len(toks) \div 2))
             + Bytes(SubSeq(toks, Len(toks) \div 2 + 1, Len(toks)))

\* A Vec indexed from 0 is a function on 0..len-1.
VecLen(v) == Cardinality(DOMAIN v)
VecPush(v, x) == [i \in 0..VecLen(v) |-> IF i < VecLen(v) THEN v[i] ELSE x]

Perms(S) == {p \in [1..Cardinality(S) -> S] : \A i, j \in 1..Cardinality(S) : p[i] = p[j] => i = j}

Ref(key, fn, id) == [key |-> key, n |-> fn, id |-> id]
Tok(k, id, refs, data, n) == [k |-> k, id |-> id, refs |-> refs, data |-> data, n |-> n]

\* ------------------------------------------------------------------ tokens
\* Pdf::new: "%PDF-1.7\n%\xB5\xED\xAE\xFB\n", written straight to the File.
Header == Tok("header", 0, <<>>, <<>>, 15)
\* write_object: "{} 0 obj\n"
ObjHeader(id) == Tok("obj", id, <<>>, <<>>, Digits(id) + 7)
\* write_object: "endobj\n"
EndObj == Tok("endobj", 0, <<>>, <<>>, 7)
\* render_page: "<< /Length {} 0 R >>\nstream\n"
StreamDict(length_id) ==
    Tok("stream", 0, <<Ref("Length", 0, length_id)>>, <<>>, 26 + Digits(length_id))
\* render_page: "/DeviceRGB cs /DeviceRGB CS\n"
Preamble == Tok("preamble", 0, <<>>, <<>>, 28)
\* render_page: "endstream\n"
EndStream == Tok("endstream", 0, <<>>, <<>>, 10)
\* render_page: the length object's body, "{}\n"
LengthValue(content_length) ==
    Tok("length", content_length, <<>>, <<>>, Digits(content_length) + 1)
\* Canvas::stroke: "S\n"
StrokeOp == Tok("S", 0, <<>>, <<>>, 2)

\* ------------------------------------------------------------------- fonts
\* cfg!(target_os = "macos") of the build.
target_os == "linux"
\* encoding::get_base_enc
get_base_enc == IF target_os = "macos" THEN "MacRomanEncoding" ELSE "WinAnsiEncoding"
\* FontEncoding::base_name of the FontSource built from a BuiltinFont:
\* From<BuiltinFont> sets `base` to get_base_enc() for every font.
base_name(font) == get_base_enc
\* FontSource::write_object:
\* "<< /Type /Font /Subtype /Type1 /BaseFont /{} /Encoding /{} >>\n"
FontDict(font) ==
    Tok("font", 0, <<>>, [name |-> font, encoding |-> base_name(font)],
        58 + Len(font) + Len(base_name(font)))

\* ------------------------------------------------------------------- state
VARIABLES
    file,             \* bytes that reached the File, as tokens
    buf,              \* bytes held by the BufWriter, not yet flushed
    object_offsets,   \* Vec<i64>: object ID -> byte offset, -1 = not written
    page_object_ids,  \* Vec<usize>: page dictionaries in emission order
    font_object_ids,  \* HashMap<Font, usize>
    outline,          \* Vec<OutlineItem>: pending outline items
    info,             \* BTreeMap<MetaData, String>
    phase,            \* "open", "finished" (finish consumed the Pdf), "aborted" (panic)
    result,           \* the last operation's outcome: "ok", "io", "callback", "panic_..."
    calls,            \* history: one record per render_page call (whether it
                      \* returned Ok, its callback, whether the callback was
                      \* invoked and returned an Err of its own, the IDs of its content stream and page
                      \* dictionary, its fonts, the titles given to add_outline)
    arg,              \* the arguments of a call of a function of the text layer
    returned          \* what that call returned

vars == <<file, buf, object_offsets, page_object_ids, font_object_ids, outline,
          info, phase, result, calls, arg, returned>>

\* The empty map.
EmptyMap == [x \in {} |-> 0]

\* The Pdf value an operation works on, with the operation's locals:
\*   io/failAt  count the flushes of this operation; flush number failAt fails
\*   err        the Err an early return (`?`) carries, "none" while running
\*   panic      the assert! that failed ("panic_length_id", "panic_slot",
\*              "panic_xref"), "none" while running
\*   pos        the value the last tell() returned
\*   start      `start` of the content closure
\*   offset     `offset` of write_object
\*   ret        the value of the last Ok(..)
\*   info_id, outlines_id   the locals of finish, 0 for None
\*   fonts, outline_items   what the Canvas of render_page fills
\*   invoked                whether render_contents was called
\*   font_oids              the NamedRefs of render_page
\*   first_id, last_id      the locals of write_outline
\*   encoding               TextObject.encoding of the text object being filled
Self(failAt) ==
    [file |-> file, buf |-> buf, object_offsets |-> object_offsets,
     page_object_ids |-> page_object_ids, font_object_ids |-> font_object_ids,
     outline |-> outline, info |-> info,
     io |-> 0, failAt |-> failAt, err |-> "none", panic |-> "none",
     pos |-> 0, start |-> 0, offset |-> 0, ret |-> 0, info_id |-> 0, outlines_id |-> 0,
     content_object_id |-> 0, content_length |-> 0,
     fonts |-> EmptyMap, outline_items |-> <<>>, font_oids |-> EmptyMap, invoked |-> FALSE,
     first_id |-> 0, last_id |-> 0, encoding |-> "none"]

\* An operation stops at its first Err or failed assertion.
Stopped(S) == S.err # "none" \/ S.panic # "none"

\* write!/writeln! on the BufWriter: the bytes go to the buffer.
write(S, tok) == IF Stopped(S) THEN S ELSE [S EXCEPT !.buf = Append(@, tok)]

\* Pdf::tell: BufWriter::seek(SeekFrom::Current(0)) flushes the buffer to the
\* file and returns the file position; a failed flush keeps the buffer.
tell(S) ==
    IF Stopped(S) THEN S
    ELSE IF S.io + 1 = S.failAt
         THEN [S EXCEPT !.io = @ + 1, !.err = "io"]
         ELSE [S EXCEPT !.io = @ + 1, !.file = S.file \o S.buf, !.buf = <<>>,
                        !.pos = Bytes(S.file \o S.buf)]

\* write! of several pieces in one call.
writes(S, toks) == IF Stopped(S) THEN S ELSE [S EXCEPT !.buf = @ \o toks]

\* Ok(value), the value a closure or method returns.
Ok(S, value) == IF Stopped(S) THEN S ELSE [S EXCEPT !.ret = value]

\* `let y = x; rest(y)`: x is evaluated first, the code after it runs on its value.
Then(x, rest(_)) == CHOOSE r \in {rest(y) : y \in {x}} : TRUE

\* ------------------------------------------------------------- text layer
\* Longest text handed to encode_string.
MaxLen == 3

\* Option<u8>::None.
None == 0 - 1

\* Characters (Unicode code points) of the texts explored: '(' ')' '\' 'A',
\* U+0141 (in no table), U+20AC (the Euro sign) and U+2708 (an airplane).
Chars == {40, 41, 92, 65, 321, 8364, 9992}
Encodings == {"WinAnsiEncoding", "ZapfDingbatsEncoding"}

\* The entries inserted after the identity loop, for the characters of Chars:
\* WIN_ANSI_ENCODING inserts U+20AC -> 128 (encoding.rs 234),
\* SYMBOL_ENCODING inserts '(' -> 0o50, ')' -> 0o51 and U+20AC -> 0o240
\* (encoding.rs 484, 485, 574),
\* ZAPFDINGBATS_ENCODING inserts U+2708 -> 0o50 (encoding.rs 694).
inserted(encoding) ==
    IF encoding = "WinAnsiEncoding" THEN (8364 :> 128)
    ELSE IF encoding = "SymbolEncoding" THEN (40 :> 40) @@ (41 :> 41) @@ (8364 :> 160)
    ELSE (9992 :> 40)

\* The last code of the identity loop: `1..=255` for WinAnsi (encoding.rs
\* 231), `1..255` for Symbol and ZapfDingbats (encoding.rs 467, 677).
last_code(encoding) == IF encoding = "WinAnsiEncoding" THEN 255 ELSE 254

\* unicode_to_code: the identity loop, then the inserted entries.
unicode_to_code(encoding) ==
    [ch \in (1..last_code(encoding)) \cup DOMAIN inserted(encoding) |->
        IF ch \in DOMAIN inserted(encoding) THEN inserted(encoding)[ch] ELSE ch]

\* Encoding::encode_char (encoding.rs 174-176).
encode_char(encoding, ch) ==
    IF ch \in DOMAIN unicode_to_code(encoding)
    THEN unicode_to_code(encoding)[ch] ELSE None

\* A variant of the match arms that never escapes.
push_encoded_unescaped(result_bytes, code) ==
    IF code = None THEN Append(result_bytes, 63) ELSE Append(result_bytes, code)

\* The match of encode_string's loop body (encoding.rs 204-212): a backslash
\* before the bytes '\\', '(' and ')', then the byte; '?' for None.
push_encoded(result_bytes, code) ==
    IF code = None THEN Append(result_bytes, 63)
    ELSE IF code \in {92, 40, 41} THEN Append(Append(result_bytes, 92), code)
    ELSE Append(result_bytes, code)

\* The loop of encode_string over text.chars(), from character i on.
RECURSIVE encode_from(_, _, _, _)
encode_from(encoding, chars, i, result_bytes) ==
    IF i > Len(chars) THEN result_bytes
    ELSE encode_from(encoding, chars, i + 1,
                     push_encoded(result_bytes, encode_char(encoding, chars[i])))

\* Encoding::encode_string (encoding.rs 201-216).
encode_string(encoding, chars) == encode_from(encoding, chars, 1, <<>>)

\* ------------------------------------------------------------ string width
\* Largest number of repetitions of a text that is measured.
MaxRepeat == 3

\* FontMetrics: a table from codes to u16 advance widths.  The first table
\* holds the Times-Roman widths of '(' ')' '?' 'A' '\\' and the Euro sign, the
\* second one the largest u16 for some codes and no entry for the others.
TimesRomanWidths ==
    (40 :> 333) @@ (41 :> 333) @@ (63 :> 444) @@ (65 :> 722) @@ (92 :> 278)
        @@ (128 :> 500)
WideWidths == (40 :> 65535) @@ (65 :> 65535) @@ (92 :> 1)

\* FontMetrics::get_width: the width of a code, None for a code without one.
get_width(metrics, code) ==
    IF code \in DOMAIN metrics THEN metrics[code] ELSE None

\* |&ch| u32::from(self.metrics.get_width(ch).unwrap_or(100))
\* (fontsource.rs 183).
width_or_100(metrics, code) ==
    IF get_width(metrics, code) = None THEN 100 ELSE get_width(metrics, code)

\* A variant of the sum that saturates at the width of four wide glyphs.
sum_saturating(metrics, bytes, i, acc) ==
    IF acc + width_or_100(metrics, bytes[i]) > 4 * 65535 THEN 4 * 65535
    ELSE acc + width_or_100(metrics, bytes[i])

\* One step of Iterator::sum over u32 (fontsource.rs 184).  The texts
\* explored have at most 2 * MaxLen * MaxRepeat bytes of at most 65535 units
\* each: the sums stay far below 2^32, where the u32 addition is exact.
sum_step(metrics, bytes, i, acc) ==
    acc + width_or_100(metrics, bytes[i])

RECURSIVE sum_from(_, _, _, _)
sum_from(metrics, bytes, i, acc) ==
    IF i > Len(bytes) THEN acc
    ELSE sum_from(metrics, bytes, i + 1, sum_step(metrics, bytes, i, acc))

\* FontSource::raw_text_width (fontsource.rs 179-185): the widths of the
\* bytes of encode_string(text), summed.
raw_text_width(font, chars) ==
    sum_from(font.metrics, encode_string(font.encoding, chars), 1, 0)


\* ----------------------------------------------------------------- canvas
\* The operations a content callback applies to its Canvas.
CanvasOp(op, font, title) == [op |-> op, font |-> font, title |-> title]
OpStroke == CanvasOp("stroke", "", "")
OpGetFont(f) == CanvasOp("get_font", f, "")
OpAddOutline(t) == CanvasOp("add_outline", "", t)
\* The callback returns an Err of its own.
OpFail == CanvasOp("fail", "", "")
OpSetDash(pattern, dash_phase) ==
    [op |-> "set_dash", pattern |-> pattern, phase |-> dash_phase]
OpText(closure_ok, propagate) ==
    [op |-> "text", closure_ok |-> closure_ok, propagate |-> propagate]

\* Canvas::stroke
stroke(S) == write(S, StrokeOp)

\* UserSpace.pt, an f32: an integral number of points, or NaN.
NaN == [nan |-> TRUE, v |-> 0]
\* pt!(num)
pt(num) == [nan |-> FALSE, v |-> num]
\* PartialOrd for UserSpace, `<` and `>`: f32::partial_cmp, None with a NaN.
lt(a, b) == ~a.nan /\ ~b.nan /\ a.v < b.v
gt(a, b) == ~a.nan /\ ~b.nan /\ a.v > b.v
\* Number of characters of "{}" applied to a UserSpace ("NaN", "-1", "12").
UserSpace_len(x) ==
    IF x.nan THEN 3 ELSE IF x.v < 0 THEN 1 + Digits(0 - x.v) ELSE Digits(x.v)

RECURSIVE PatternBytes(_)
\* Canvas::set_dash: " {}" per entry (the first is written without the blank,
\* after "[").
PatternBytes(pattern) ==
    IF pattern = <<>> THEN 0
    ELSE 1 + UserSpace_len(Head(pattern)) + PatternBytes(Tail(pattern))
\* Canvas::set_dash: "[{}" + " {}".. + "] {} d\n"
DashOp(pattern, dash_phase) ==
    Tok("d", 0, <<>>, [pattern |-> pattern, phase |-> dash_phase],
        PatternBytes(pattern) + 2 + UserSpace_len(dash_phase) + 3)

RECURSIVE valid_array(_, _)
\* Canvas::set_dash, the loop over the pattern (canvas.rs 71-81): FALSE
\* when it returns Ok(()) early, at an entry < 0 or with no entry > 0.
valid_array(pattern, valid) ==
    IF pattern = <<>> THEN valid
    ELSE IF lt(Head(pattern), pt(0)) THEN FALSE
    ELSE valid_array(Tail(pattern), valid \/ gt(Head(pattern), pt(0)))

\* Canvas::set_dash
set_dash(S, pattern, dash_phase) ==
    IF valid_array(pattern, FALSE) THEN write(S, DashOp(pattern, dash_phase)) ELSE S

\* Canvas::text: "BT\n" and "ET\n"
BT == Tok("BT", 0, <<>>, <<>>, 3)
ET == Tok("ET", 0, <<>>, <<>>, 3)
\* TextObject::pos: "{} {} Td\n"
TdOp(x, y) == Tok("Td", 0, <<>>, <<x, y>>, UserSpace_len(x) + 1 + UserSpace_len(y) + 4)
\* TextObject::pos
pos(S, x, y) == write(S, TdOp(x, y))

\* Canvas::text after render_text returned (canvas.rs 214-216): with Ok, "ET"
\* is written; with Err, `?` returns it at once.  The callback either hands
\* that Err on with `?` or drops it and goes on.
text_result(S, closure_ok, propagate) ==
    IF Stopped(S) THEN S
    ELSE IF closure_ok THEN write(S, ET)
    ELSE IF propagate THEN [S EXCEPT !.err = "callback"]
    ELSE S

\* Canvas::text with a closure that moves the text position once and returns
\* Ok or an Err of its own.
text(S, closure_ok, propagate) ==
    text_result(pos(write(S, BT), pt(10), pt(300)), closure_ok, propagate)

\* A variant of get_font that numbers a new font by the fonts of the document.
get_font_document_count(S, font) ==
    IF Stopped(S) \/ font \in DOMAIN S.fonts THEN S
    ELSE LET next_n == Cardinality(DOMAIN S.font_object_ids)
         IN [S EXCEPT !.fonts = [f \in DOMAIN S.fonts \cup {font} |->
                                    IF f = font THEN next_n ELSE S.fonts[f]]]

\* Canvas::get_font: the first request of a font gives it the number
\* fonts.len(); a repeated request finds the entry.
get_font(S, font) ==
    IF Stopped(S) \/ font \in DOMAIN S.fonts THEN S
    ELSE LET next_n == Cardinality(DOMAIN S.fonts)
         IN [S EXCEPT !.fonts = [f \in DOMAIN S.fonts \cup {font} |->
                                    IF f = font THEN next_n ELSE S.fonts[f]]]

\* OutlineItem::new(title): no page yet.
OutlineItem_new(title) == [title |-> title, page_id |-> 0]

\* Canvas::add_outline
add_outline(S, title) ==
    IF Stopped(S) THEN S
    ELSE [S EXCEPT !.outline_items = Append(@, OutlineItem_new(title))]

\* ------------------------------------------------------------ text objects
\* BuiltinFont::encoding / From<BuiltinFont> for FontSource: the encoding of
\* a font.
font_encoding(font) ==
    IF font = "Symbol" THEN "SymbolEncoding"
    ELSE IF font = "ZapfDingbats" THEN "ZapfDingbatsEncoding"
    ELSE get_base_enc

\* get_builtin_metrics: widths of Helvetica (' ' '(' ')' '?' 'A' 'H' '\\' and
\* the Euro sign) and of Symbol ('(' ')' '?' Alpha, therefore, Euro).
HelveticaWidths ==
    (32 :> 278) @@ (40 :> 333) @@ (41 :> 333) @@ (63 :> 556) @@ (65 :> 667)
        @@ (72 :> 722) @@ (92 :> 278) @@ (128 :> 556)
SymbolWidths ==
    (40 :> 333) @@ (41 :> 333) @@ (63 :> 444) @@ (65 :> 722) @@ (92 :> 863)
        @@ (160 :> 750)
font_metrics(font) == IF font = "Symbol" THEN SymbolWidths ELSE HelveticaWidths

\* FontRef::new(next_n, font.encoding().clone(), Arc::new(font.metrics())),
\* the value get_font returns for a font of the page.
FontRef_new(n, font) ==
    [n |-> n, encoding |-> font_encoding(font), metrics |-> font_metrics(font)]
FontRef_of(S, font) == FontRef_new(S.fonts[font], font)

\* The closure of FontRef::raw_text_width's fold (fontref.rs 60-66):
\* acc + u32::from(encode_char(ch).and_then(get_width).unwrap_or(100)).
FontRef_width_step(fontref, ch, acc) ==
    IF encode_char(fontref.encoding, ch) = None THEN acc + 100
    ELSE acc + width_or_100(fontref.metrics, encode_char(fontref.encoding, ch))

RECURSIVE FontRef_fold(_, _, _, _)
FontRef_fold(fontref, chars, i, acc) ==
    IF i > Len(chars) THEN acc
    ELSE FontRef_fold(fontref, chars, i + 1, FontRef_width_step(fontref, chars[i], acc))

\* FontRef::raw_text_width (fontref.rs 59-67).
FontRef_raw_text_width(fontref, chars) == FontRef_fold(fontref, chars, 1, 0)

\* FontRef::text_width (fontref.rs 46-52): size * raw as f32 / 1000.0.  The
\* sizes and texts explored make the product a multiple of 1000 below 2^24:
\* the f32 product and quotient are exact.
FontRef_text_width(fontref, size, chars) ==
    pt((size.v * FontRef_raw_text_width(fontref, chars)) \div 1000)

\* Canvas::rectangle: "{} {} {} {} re\n"
RectOp(x, y, width, height) ==
    Tok("re", 0, <<>>, <<x, y, width, height>>,
        UserSpace_len(x) + UserSpace_len(y) + UserSpace_len(width)
            + UserSpace_len(height) + 7)
rectangle(S, x, y, width, height) == write(S, RectOp(x, y, width, height))

\* TextObject::new: the platform's base encoding.
TextObject_new(S) == IF Stopped(S) THEN S ELSE [S EXCEPT !.encoding = get_base_enc]

\* TextObject::set_font: "{} {} Tf\n", the font printed as "/F{n}".
TfOp(fontref, size) ==
    Tok("Tf", 0, <<>>, [font |-> fontref.n, size |-> size],
        2 + Digits(fontref.n) + 1 + UserSpace_len(size) + 4)
\* A variant of set_font that leaves the encoding as it is.
set_font_keeps_encoding(S, fontref, size) == write(S, TfOp(fontref, size))
\* TextObject::set_font
set_font(S, fontref, size) ==
    IF Stopped(S) THEN S
    ELSE write([S EXCEPT !.encoding = fontref.encoding], TfOp(fontref, size))

\* TextObject::show: "(" + encode_string(text) + ") Tj\n"
TjOp(bytes) == Tok("Tj", 0, <<>>, bytes, 1 + Len(bytes) + 6)
show(S, chars) ==
    IF Stopped(S) THEN S ELSE write(S, TjOp(encode_string(S.encoding, chars)))
\* TextObject::show_line: "(" + encode_string(text) + ") '\n"
QuoteOp(bytes) == Tok("'", 0, <<>>, bytes, 1 + Len(bytes) + 4)
show_line(S, chars) ==
    IF Stopped(S) THEN S ELSE write(S, QuoteOp(encode_string(S.encoding, chars)))
\* TextObject::show_adjusted with one (text, offset) pair:
\* "[" + "(" + encode_string(text) + ") {} " + "] TJ\n", the offset >= 0.
TJOp(bytes, offset) ==
    Tok("TJ", 0, <<>>, bytes, 1 + 1 + Len(bytes) + 2 + Digits(offset) + 1 + 5)
show_adjusted(S, chars, offset) ==
    IF Stopped(S) THEN S ELSE write(S, TJOp(encode_string(S.encoding, chars), offset))
\* TextObject::gsave and grestore: "q\n" and "Q\n"
GsaveOp == Tok("q", 0, <<>>, <<>>, 2)
GrestoreOp == Tok("Q", 0, <<>>, <<>>, 2)
TextObject_gsave(S) == write(S, GsaveOp)
TextObject_grestore(S) == write(S, GrestoreOp)

\* The operations a text closure applies to its TextObject; set_font is given
\* the FontRef that get_font returned for the font on this page.
TSetFont(font, size) == [op |-> "set_font", font |-> font, size |-> size]
TPos(x, y) == [op |-> "pos", x |-> x, y |-> y]
TShow(chars) == [op |-> "show", text |-> chars]
TShowLine(chars) == [op |-> "show_line", text |-> chars]
TShowAdjusted(chars, offset) == [op |-> "show_adjusted", text |-> chars, offset |-> offset]
TGsave == [op |-> "gsave"]
TGrestore == [op |-> "grestore"]

\* One step of a text closure.
text_op(S, t) ==
    CASE t.op = "set_font" -> set_font(S, FontRef_of(S, t.font), t.size)
      [] t.op = "pos" -> pos(S, t.x, t.y)
      [] t.op = "show" -> show(S, t.text)
      [] t.op = "show_line" -> show_line(S, t.text)
      [] t.op = "show_adjusted" -> show_adjusted(S, t.text, t.offset)
      [] t.op = "gsave" -> TextObject_gsave(S)
      [] t.op = "grestore" -> TextObject_grestore(S)

RECURSIVE render_text(_, _)
\* The closure handed to Canvas::text, applied to its TextObject.
render_text(S, tops) ==
    IF tops = <<>> THEN S
    ELSE IF Len(tops) = 1 THEN text_op(S, tops[1])
    ELSE Then(render_text(S, SubSeq(tops, 1, Len(tops) \div 2)), LAMBDA S1 :
             render_text(S1, SubSeq(tops, Len(tops) \div 2 + 1, Len(tops))))

\* Canvas::text with a closure that returns Ok: "BT", the closure on a new
\* TextObject, "ET".
text_object(S, tops) ==
    Then(TextObject_new(write(S, BT)), LAMBDA T : write(render_text(T, tops), ET))

\* Canvas::left_text (canvas.rs 219-237), font being the result of get_font.
left_text(S, x, y, font, size, chars) ==
    Then(get_font(S, font), LAMBDA S1 :
    text_object(S1, <<TSetFont(font, size), TPos(x, y), TShow(chars)>>))

\* x - text_width, the font being the FontRef of the page.
right_x(S, x, font, size, chars) ==
    pt(x.v - FontRef_text_width(FontRef_of(S, font), size, chars).v)
right_placed(S, x, y, font, size, chars) ==
    IF Stopped(S) THEN S
    ELSE text_object(S, <<TSetFont(font, size),
                          TPos(right_x(S, x, font, size, chars), y), TShow(chars)>>)
\* Canvas::right_text (canvas.rs 239-258)
right_text(S, x, y, font, size, chars) ==
    Then(get_font(S, font), LAMBDA S1 : right_placed(S1, x, y, font, size, chars))

\* x - text_width / 2.0, the font being the FontRef of the page; the widths
\* explored are even.
center_x(S, x, font, size, chars) ==
    pt(x.v - (FontRef_text_width(FontRef_of(S, font), size, chars).v \div 2))
center_placed(S, x, y, font, size, chars) ==
    IF Stopped(S) THEN S
    ELSE text_object(S, <<TSetFont(font, size),
                          TPos(center_x(S, x, font, size, chars), y), TShow(chars)>>)
\* Canvas::center_text (canvas.rs 260-279)
center_text(S, x, y, font, size, chars) ==
    Then(get_font(S, font), LAMBDA S1 : center_placed(S1, x, y, font, size, chars))

\* The operations of a callback that place text.
OpRectangle(x, y, width, height) ==
    [op |-> "rectangle", x |-> x, y |-> y, width |-> width, height |-> height]
OpPlaceText(op, x, y, font, size, chars) ==
    [op |-> op, x |-> x, y |-> y, font |-> font, size |-> size, text |-> chars]
OpTextObject(tops) == [op |-> "text_object", closure |-> tops]

\* Mutant of canvas_op: the Err of the callback is dropped.
canvas_op_err_dropped(S, c) ==
    CASE c.op = "stroke" -> stroke(S)
      [] c.op = "get_font" -> get_font(S, c.font)
      [] c.op = "add_outline" -> add_outline(S, c.title)
      [] c.op = "set_dash" -> set_dash(S, c.pattern, c.phase)
      [] c.op = "text" -> text(S, c.closure_ok, c.propagate)
      [] c.op = "rectangle" -> rectangle(S, c.x, c.y, c.width, c.height)
      [] c.op = "left_text" -> left_text(S, c.x, c.y, c.font, c.size, c.text)
      [] c.op = "right_text" -> right_text(S, c.x, c.y, c.font, c.size, c.text)
      [] c.op = "center_text" -> center_text(S, c.x, c.y, c.font, c.size, c.text)
      [] c.op = "text_object" -> text_object(S, c.closure)
      [] c.op = "fail" -> S

\* One step of the callback.
canvas_op(S, c) ==
    CASE c.op = "stroke" -> stroke(S)
      [] c.op = "get_font" -> get_font(S, c.font)
      [] c.op = "add_outline" -> add_outline(S, c.title)
      [] c.op = "set_dash" -> set_dash(S, c.pattern, c.phase)
      [] c.op = "text" -> text(S, c.closure_ok, c.propagate)
      [] c.op = "rectangle" -> rectangle(S, c.x, c.y, c.width, c.height)
      [] c.op = "left_text" -> left_text(S, c.x, c.y, c.font, c.size, c.text)
      [] c.op = "right_text" -> right_text(S, c.x, c.y, c.font, c.size, c.text)
      [] c.op = "center_text" -> center_text(S, c.x, c.y, c.font, c.size, c.text)
      [] c.op = "text_object" -> text_object(S, c.closure)
      [] c.op = "fail" -> IF Stopped(S) THEN S ELSE [S EXCEPT !.err = "callback"]

RECURSIVE render_contents(_, _)
\* The callback handed to render_page, applied to its Canvas.
render_contents(S, ops) ==
    IF ops = <<>> THEN S
    ELSE IF Len(ops) = 1 THEN canvas_op(S, ops[1])
    ELSE Then(render_contents(S, SubSeq(ops, 1, Len(ops) \div 2)), LAMBDA S1 :
             render_contents(S1, SubSeq(ops, Len(ops) \div 2 + 1, Len(ops))))

\* ------------------------------------------------- tokens of the dictionaries
RECURSIVE SortedSeq(_)
\* The elements of a set of integers, ascending.
SortedSeq(ns) ==
    IF ns = {} THEN <<>>
    ELSE LET m == CHOOSE x \in ns : \A y \in ns : x <= y
         IN <<m>> \o SortedSeq(ns \ {m})

RECURSIVE RefBytes(_, _)
\* Bytes of a list of references, each written with `fixed` bytes around its numbers.
RefBytes(refs, fixed) ==
    IF refs = <<>> THEN 0
    ELSE fixed + Digits(Head(refs).n) + Digits(Head(refs).id) + RefBytes(Tail(refs), fixed)

\* NamedRefs::fmt: "{} {} 0 R " per font, the name being FontRef::fmt "/F{}".
\* The HashMap's order is unspecified; the entries are listed by number here.
NamedRefs_fmt(font_oids) ==
    LET ns == SortedSeq(DOMAIN font_oids)
    IN [i \in 1..Len(ns) |-> Ref("F", ns[i], font_oids[ns[i]])]

\* write_page_dict: "<< /Type /Page\n   /Parent {} 0 R\n   /Resources << /Font
\* << {fonts}>> >>\n   /MediaBox [0 0 {width} {height}]\n   /Contents {} 0 R\n>>\n"
PageDict(content_oid, width, height, font_oids) ==
    LET fonts == NamedRefs_fmt(font_oids)
    IN Tok("page", 0,
           <<Ref("Parent", 0, PAGE_OBJECT_ID)>> \o fonts \o <<Ref("Contents", 0, content_oid)>>,
           <<width, height>>,
           105 + Digits(PAGE_OBJECT_ID) + RefBytes(fonts, 8) + Digits(width)
               + Digits(height) + Digits(content_oid))

\* finish: "<< /Type /Pages\n   /Count {}\n   /Kids [ " + "{} 0 R " per page + "]\n>>\n"
PagesDict(page_ids) ==
    LET kids == [i \in 1..Len(page_ids) |-> Ref("Kids", 0, page_ids[i])]
    IN Tok("pages", Len(page_ids), kids, <<>>,
           38 + Digits(Len(page_ids)) + RefBytes(kids, 4) + 5)

RECURSIVE InfoBytes(_)
\* finish: " /{} ({})\n" per metadata entry
InfoBytes(entries) ==
    IF entries = <<>> THEN 0
    ELSE 6 + Len(Head(entries)[1]) + Len(Head(entries)[2]) + InfoBytes(Tail(entries))

\* The entries of the BTreeMap in key order.
InfoEntries(meta) ==
    LET keys == SelectSeq(MetaOrder, LAMBDA k : k \in DOMAIN meta)
    IN [i \in 1..Len(keys) |-> <<keys[i], meta[keys[i]]>>]

\* finish: "<<" + entries + " /CreationDate (D:{now})\n /ModDate (D:{now})" + ">>\n",
\* now = strftime("%Y%m%d%H%M%S%z"), 19 characters.
InfoDict(meta) ==
    Tok("info", 0, <<>>, InfoEntries(meta), 2 + InfoBytes(InfoEntries(meta)) + 34 + 19 + 19 + 3)

\* finish: "<< /Type /Catalog\n   /Pages {} 0 R\n" + "/Outlines {} 0 R\n" + ">>\n"
Catalog(outlines_id) ==
    Tok("catalog", 0,
        <<Ref("Pages", 0, PAGE_OBJECT_ID)>>
            \o (IF outlines_id = 0 THEN <<>> ELSE <<Ref("Outlines", 0, outlines_id)>>),
        <<>>,
        33 + Digits(PAGE_OBJECT_ID) + (IF outlines_id = 0 THEN 0 ELSE 15 + Digits(outlines_id)) + 3)

\* OutlineItem::write_dictionary(output, parent_id, prev, next); 0 stands for None.
OutlineItemDict(item, parent_id, prev, next) ==
    Tok("outline_item", 0,
        <<Ref("Parent", 0, parent_id), Ref("Dest", 0, item.page_id)>>
            \o (IF prev = 0 THEN <<>> ELSE <<Ref("Prev", 0, prev)>>)
            \o (IF next = 0 THEN <<>> ELSE <<Ref("Next", 0, next)>>),
        item.title,
        65 + Len(item.title) + Digits(parent_id) + Digits(item.page_id)
           + (IF prev = 0 THEN 0 ELSE 14 + Digits(prev))
           + (IF next = 0 THEN 0 ELSE 14 + Digits(next)) + 3)

\* write_outline: "<< /Type /Outlines\n   /First {} 0 R\n   /Last {} 0 R\n   /Count {}\n>>\n"
OutlinesDict(first_id, last_id, count) ==
    Tok("outlines", count, <<Ref("First", 0, first_id), Ref("Last", 0, last_id)>>, <<>>,
        62 + Digits(first_id) + Digits(last_id) + Digits(count))

\* finish: "xref\n0 {}\n0000000000 65535 f\n", one piece per line
XrefHead(count) ==
    << Tok("xref", 0, <<>>, <<>>, 5),
       Tok("xref_count", count, <<>>, <<>>, 3 + Digits(count)),
       Tok("xref_f", 0, <<>>, <<>>, 19) >>
\* finish: "{:010} 00000 n\n"
XrefLine(offset) == Tok("xref_n", offset, <<>>, <<>>, Digits010(offset) + 9)
\* finish: "trailer\n<< /Size {}\n   /Root {} 0 R\n"
Trailer(size) ==
    Tok("trailer", size, <<Ref("Root", 0, ROOT_OBJECT_ID)>>, <<>>,
        32 + Digits(size) + Digits(ROOT_OBJECT_ID))
\* finish: "   /Info {} 0 R\n"
TrailerInfo(id) == Tok("trailer_info", 0, <<Ref("Info", 0, id)>>, <<>>, 14 + Digits(id))
\* finish: ">>\nstartxref\n{}\n%%EOF\n"
Footer(startxref) == Tok("startxref", startxref, <<>>, <<>>, 20 + Digits(startxref))

\* ---------------------------------------------------------------- closures
\* The closures handed to write_object, each with what it captures.

\* `let start = pdf.tell()?`, applied to the outcome of tell.
let_start(S) == IF Stopped(S) THEN S ELSE [S EXCEPT !.start = S.pos]

\* Canvas::new(&mut pdf.output, &mut fonts, &mut outline) on two new collections.
Canvas_new(S) ==
    IF Stopped(S) THEN S
    ELSE [S EXCEPT !.fonts = EmptyMap, !.outline_items = <<>>, !.invoked = TRUE]

\* Ok((content_object_id, end - start, fonts, outline)), end being the last tell.
content_result(S, content_object_id) ==
    IF Stopped(S) THEN S
    ELSE [S EXCEPT !.content_object_id = content_object_id,
                   !.content_length = S.pos - S.start]

\* Mutant of content_closure: the start position is taken before the stream's
\* dictionary line is written.
content_closure_start_early(content_object_id, P, ops) ==
    Then(write(write(let_start(tell(P)), StreamDict(content_object_id + 1)), Preamble),
         LAMBDA P3 :
    Then(render_contents(Canvas_new(P3), ops), LAMBDA P4 :
    content_result(write(tell(P4), EndStream), content_object_id)))

\* render_page, the content stream's closure (lib.rs 210-232).
content_closure(content_object_id, P, ops) ==
    Then(write(let_start(tell(write(P, StreamDict(content_object_id + 1)))), Preamble),
         LAMBDA P3 :
    Then(render_contents(Canvas_new(P3), ops), LAMBDA P4 :
    content_result(write(tell(P4), EndStream), content_object_id)))

\* render_page, the length object's closure (lib.rs 234-237).
length_closure(object_id_length, P, content_object_id, content_length) ==
    IF Stopped(P) THEN P
    ELSE IF object_id_length # content_object_id + 1 THEN [P EXCEPT !.panic = "panic_length_id"]
    ELSE write(P, LengthValue(content_length))

\* FontSource::write_object's closure.
font_closure(font_object_id, P, source) ==
    Ok(write(P, FontDict(source)), font_object_id)

\* write_page_dict's closure.
page_closure(page_oid, P, content_oid, width, height, font_oids) ==
    Ok(write(P, PageDict(content_oid, width, height, font_oids)), page_oid)

\* finish, the pages tree's closure (lib.rs 331-343).
pages_closure(P) == write(P, PagesDict(P.page_object_ids))

\* finish, the info object's closure (lib.rs 347-365).
info_closure(page_object_id, P, meta) ==
    Ok(write(P, InfoDict(meta)), page_object_id)

\* Mutant of outline_item_closure: /Prev and /Next are exchanged.
outline_item_closure_links_exchanged(object_id, P, item, parent_id, is_first, is_last) ==
    Ok(write(P, OutlineItemDict(item, parent_id,
                                IF is_last THEN 0 ELSE object_id + 1,
                                IF is_first THEN 0 ELSE object_id - 1)),
       object_id)

\* write_outline, an item's closure (lib.rs 432-439).
outline_item_closure(object_id, P, item, parent_id, is_first, is_last) ==
    Ok(write(P, OutlineItemDict(item, parent_id,
                                IF is_first THEN 0 ELSE object_id - 1,
                                IF is_last THEN 0 ELSE object_id + 1)),
       object_id)

\* write_outline, the parent's closure (lib.rs 448-460).
outlines_closure(P, first_id, last_id, count) ==
    write(P, OutlinesDict(first_id, last_id, count))

\* finish, the catalog's closure (lib.rs 372-383).
catalog_closure(P, outlines_id) == write(P, Catalog(outlines_id))

\* Whether a callback returns an Err of its own: it fails, or hands on the Err
\* of a text closure.
returns_err(ops) ==
    \E o \in DOMAIN ops :
        \/ ops[o].op = "fail"
        \/ ops[o].op = "text" /\ ~ops[o].closure_ok /\ ops[o].propagate

\* The call write_content(id, pdf) of a closure value c.
call(c, id, P) ==
    CASE c.fn = "content" -> content_closure(id, P, c.ops)
      [] c.fn = "length" -> length_closure(id, P, c.content_object_id, c.content_length)
      [] c.fn = "font" -> font_closure(id, P, c.source)
      [] c.fn = "page" -> page_closure(id, P, c.content_oid, c.width, c.height, c.font_oids)
      [] c.fn = "pages" -> pages_closure(P)
      [] c.fn = "info" -> info_closure(id, P, c.meta)
      [] c.fn = "outline_item" ->
            outline_item_closure(id, P, c.item, c.parent_id, c.is_first, c.is_last)
      [] c.fn = "outlines" -> outlines_closure(P, c.first_id, c.last_id, c.count)
      [] c.fn = "catalog" -> catalog_closure(P, c.outlines_id)

\* ------------------------------------------------------- object allocation
\* `let offset = self.tell()? as i64`, applied to the outcome of tell.
let_offset(S) == IF Stopped(S) THEN S ELSE [S EXCEPT !.offset = S.pos]

\* Mutant of write_object: the offset is taken after the header line is written.
write_object_offset_late(S, id, write_content) ==
    Then(let_offset(tell(write(S, ObjHeader(id)))), LAMBDA S2 :
    Then(call(write_content, id, S2), LAMBDA S3 : write(S3, EndObj)))

\* Pdf::write_object; the pair it returns is (ret, offset).
write_object(S, id, write_content) ==
    Then(write(let_offset(tell(S)), ObjHeader(id)), LAMBDA S2 :
    Then(call(write_content, id, S2), LAMBDA S3 : write(S3, EndObj)))

\* self.object_offsets.push(offset), reached when write_object returned Ok.
push_offset(S) ==
    IF Stopped(S) THEN S ELSE [S EXCEPT !.object_offsets = VecPush(@, S.offset)]

\* Mutant of write_new_object: the offset of the new object is not recorded.
write_new_object_no_push(S, write_content) ==
    write_object(S, VecLen(S.object_offsets), write_content)

\* A variant of write_new_object that records the offset although
\* write_object returned an Err.
write_new_object_pushes_on_err(S, write_content) ==
    IF Stopped(S) THEN S
    ELSE Then(write_object(S, VecLen(S.object_offsets), write_content), LAMBDA S1 :
             [S1 EXCEPT !.object_offsets = VecPush(@, S1.offset)])

\* A variant of write_new_object that hands out the ID after the next one.
write_new_object_skips_id(S, write_content) ==
    push_offset(write_object(S, VecLen(S.object_offsets) + 1, write_content))

\* Pdf::write_new_object
write_new_object(S, write_content) ==
    push_offset(write_object(S, VecLen(S.object_offsets), write_content))

\* self.object_offsets[id] = offset, reached when write_object returned Ok.
set_offset(S, id) ==
    IF Stopped(S) THEN S ELSE [S EXCEPT !.object_offsets[id] = S.offset]

\* Pdf::write_object_with_id
write_object_with_id(S, id, write_content) ==
    IF Stopped(S) THEN S
    ELSE IF S.object_offsets[id] # -1 THEN [S EXCEPT !.panic = "panic_slot"]
    ELSE set_offset(write_object(S, id, write_content), id)

\* FontSource::write_object
FontSource_write_object(S, source) ==
    write_new_object(S, [fn |-> "font", source |-> source])

\* Pdf::write_page_dict
write_page_dict(S, content_oid, width, height, font_oids) ==
    write_new_object(S, [fn |-> "page", content_oid |-> content_oid, width |-> width,
                         height |-> height, font_oids |-> font_oids])

\* HashMap::insert
Insert(map, key, value) ==
    [k \in DOMAIN map \cup {key} |-> IF k = key THEN value ELSE map[k]]

\* ------------------------------------------------------------- render_page
\* font_oids.insert(fontref, object_id); self.font_object_ids.insert(source,
\* object_id), object_id being what source.write_object(self)? returned.
insert_font(S, source, fontref) ==
    IF Stopped(S) THEN S
    ELSE [S EXCEPT !.font_oids = Insert(@, fontref, S.ret),
                   !.font_object_ids = Insert(@, source, S.ret)]

\* Mutant of font_object: the font map is not consulted, the font is written
\* for every page that asks for it.
font_object_always_written(S, source, fontref) ==
    insert_font(FontSource_write_object(S, source), source, fontref)

\* A variant of font_object that gives a page no entry for a font that an
\* earlier page wrote.
font_object_known_skipped(S, source, fontref) ==
    IF source \in DOMAIN S.font_object_ids THEN S
    ELSE insert_font(FontSource_write_object(S, source), source, fontref)

\* render_page, the body of the loop over the page's fonts (lib.rs 241-247).
font_object(S, source, fontref) ==
    IF source \in DOMAIN S.font_object_ids
    THEN [S EXCEPT !.font_oids = Insert(@, fontref, S.font_object_ids[source])]
    ELSE insert_font(FontSource_write_object(S, source), source, fontref)

RECURSIVE font_objects(_, _, _)
\* render_page, the loop over the page's fonts (lib.rs 240-248), in the order
\* the HashMap yields them.
font_objects(S, fonts, order) ==
    IF order = <<>> \/ Stopped(S) THEN S
    ELSE Then(font_object(S, Head(order), fonts[Head(order)]), LAMBDA S1 :
             font_objects(S1, fonts, Tail(order)))

\* render_page, the length object (lib.rs 234-237).
length_object(S) ==
    write_new_object(S, [fn |-> "length", content_object_id |-> S.content_object_id,
                         content_length |-> S.content_length])

\* render_page, the font objects of the page (lib.rs 239-248).  hash_order
\* lists all fonts in the order this call's HashMap would yield them.
page_fonts(S, hash_order) ==
    IF Stopped(S) THEN S
    ELSE font_objects([S EXCEPT !.font_oids = EmptyMap], S.fonts,
                      SelectSeq(hash_order, LAMBDA f : f \in DOMAIN S.fonts))

\* render_page, the page dictionary (lib.rs 249-250).
page_object(S, width, height) ==
    write_page_dict(S, S.content_object_id, width, height, S.font_oids)

\* Mutant of add_page: the page ID is put at the front of the page list.
add_page_at_front(S) ==
    IF Stopped(S) THEN S
    ELSE [S EXCEPT !.outline = @ \o [i \in 1..Len(S.outline_items) |->
                                        [S.outline_items[i] EXCEPT !.page_id = S.ret]],
                   !.page_object_ids = <<S.ret>> \o @]

\* Mutant of add_page: the page's outline items are put before the pending
\* ones.
add_page_items_first(S) ==
    IF Stopped(S) THEN S
    ELSE [S EXCEPT !.outline = [i \in 1..Len(S.outline_items) |->
                                   [S.outline_items[i] EXCEPT !.page_id = S.ret]] \o @,
                   !.page_object_ids = Append(@, S.ret)]

\* render_page, after the page dictionary is written (lib.rs 251-257);
\* page_oid is what write_page_dict returned.
add_page(S) ==
    IF Stopped(S) THEN S
    ELSE [S EXCEPT !.outline = @ \o [i \in 1..Len(S.outline_items) |->
                                        [S.outline_items[i] EXCEPT !.page_id = S.ret]],
                   !.page_object_ids = Append(@, S.ret)]

\* A variant of render_page that writes the page dictionary before the font
\* objects of the page.
render_page_page_first(S, width, height, ops, hash_order) ==
    Then(write_new_object(S, [fn |-> "content", ops |-> ops]), LAMBDA S1 :
    Then(length_object(S1), LAMBDA S2 :
    Then(add_page(page_object(S2, width, height)), LAMBDA S3 :
    Ok(page_fonts(S3, hash_order), S3.ret))))

\* Pdf::render_page
render_page(S, width, height, ops, hash_order) ==
    Then(write_new_object(S, [fn |-> "content", ops |-> ops]), LAMBDA S1 :
    Then(length_object(S1), LAMBDA S2 :
    Then(page_fonts(S2, hash_order), LAMBDA S3 :
    Then(page_object(S3, width, height), add_page))))

\* ------------------------------------------------------------------ finish
\* write_outline, `if is_first { first_id = id; } if is_last { last_id = id; }`
\* (lib.rs 440-445), id being what write_new_object returned.
first_last(S, is_first, is_last) ==
    IF Stopped(S) THEN S
    ELSE [S EXCEPT !.first_id = IF is_first THEN S.ret ELSE @,
                   !.last_id = IF is_last THEN S.ret ELSE @]

RECURSIVE write_outline_items(_, _, _, _)
\* write_outline, the loop over the items (lib.rs 430-446); i counts from 1.
write_outline_items(S, items, i, parent_id) ==
    IF i > Len(items) \/ Stopped(S) THEN S
    ELSE Then(first_last(
                  write_new_object(S, [fn |-> "outline_item", item |-> items[i],
                                       parent_id |-> parent_id,
                                       is_first |-> (i = 1), is_last |-> (i = Len(items))]),
                  i = 1, i = Len(items)),
              LAMBDA S1 : write_outline_items(S1, items, i + 1, parent_id))

\* write_outline, the parent object (lib.rs 448-460).
outlines_object(S, parent_id, count) ==
    write_object_with_id(S, parent_id,
        [fn |-> "outlines", first_id |-> S.first_id, last_id |-> S.last_id, count |-> count])

\* Mutant of write_outline: the parent's slot is not reserved before the items
\* are written.
write_outline_no_reserve(S) ==
    IF Stopped(S) THEN S
    ELSE IF S.outline = <<>> THEN [S EXCEPT !.ret = 0]
    ELSE Then(write_outline_items([S EXCEPT !.outline = <<>>, !.first_id = 0, !.last_id = 0],
                                  S.outline, 1, VecLen(S.object_offsets)),
              LAMBDA S2 :
                  Ok(outlines_object(S2, VecLen(S.object_offsets), Len(S.outline)),
                     VecLen(S.object_offsets)))

\* Pdf::write_outline; ret = 0 stands for None.
write_outline(S) ==
    IF Stopped(S) THEN S
    ELSE IF S.outline = <<>> THEN [S EXCEPT !.ret = 0]
    ELSE Then(write_outline_items([S EXCEPT !.object_offsets = VecPush(@, -1),
                                            !.outline = <<>>,
                                            !.first_id = 0, !.last_id = 0],
                                  S.outline, 1, VecLen(S.object_offsets)),
              LAMBDA S2 :
                  Ok(outlines_object(S2, VecLen(S.object_offsets), Len(S.outline)),
                     VecLen(S.object_offsets)))

\* Mutant of write_info: the info object is written even when no metadata
\* was set.
write_info_always(S) ==
    IF Stopped(S) THEN S
    ELSE write_new_object([S EXCEPT !.info = EmptyMap], [fn |-> "info", meta |-> S.info])

\* finish, the info object (lib.rs 345-368); ret = 0 stands for None.
write_info(S) ==
    IF Stopped(S) THEN S
    ELSE IF DOMAIN S.info # {}
         THEN write_new_object([S EXCEPT !.info = EmptyMap], [fn |-> "info", meta |-> S.info])
         ELSE [S EXCEPT !.ret = 0]

\* finish, `let info_id = ..` (lib.rs 345).
let_info_id(S) == IF Stopped(S) THEN S ELSE [S EXCEPT !.info_id = S.ret]

\* finish, `let outlines_id = self.write_outline()?` (lib.rs 370).
let_outlines_id(S) == IF Stopped(S) THEN S ELSE [S EXCEPT !.outlines_id = S.ret]

\* Mutant of catalog_object: the catalog never names the outline.
catalog_object_without_outlines(S) ==
    write_object_with_id(S, ROOT_OBJECT_ID, [fn |-> "catalog", outlines_id |-> 0])

\* finish, the catalog object (lib.rs 372-383).
catalog_object(S) ==
    write_object_with_id(S, ROOT_OBJECT_ID, [fn |-> "catalog", outlines_id |-> S.outlines_id])

\* Mutant of xref_head: the subsection header counts the objects without
\* object 0.
xref_head_count_short(S) ==
    IF Stopped(S) THEN S ELSE writes(S, XrefHead(VecLen(S.object_offsets) - 1))

\* finish, the head of the xref section (lib.rs 385-391).
xref_head(S) ==
    IF Stopped(S) THEN S ELSE writes(S, XrefHead(VecLen(S.object_offsets)))

\* finish, the loop over object_offsets.iter().skip(1) (lib.rs 393-396): the
\* lines up to the first entry that fails the assertion, all of them when
\* there is none.
xref_lines(S, id) ==
    IF Stopped(S) THEN S
    ELSE IF \E i \in id..(VecLen(S.object_offsets) - 1) : S.object_offsets[i] < 0
    THEN [writes(S, [i \in 1..((CHOOSE m \in id..(VecLen(S.object_offsets) - 1) :
                                    /\ S.object_offsets[m] < 0
                                    /\ \A j \in id..(m - 1) : S.object_offsets[j] >= 0) - id) |->
                        XrefLine(S.object_offsets[id + i - 1])])
             EXCEPT !.panic = "panic_xref"]
    ELSE writes(S, [i \in 1..(VecLen(S.object_offsets) - id) |->
                       XrefLine(S.object_offsets[id + i - 1])])

\* finish, the trailer dictionary with its optional /Info (lib.rs 397-407).
trailer(S) ==
    IF Stopped(S) THEN S
    ELSE IF S.info_id # 0
         THEN writes(S, <<Trailer(VecLen(S.object_offsets)), TrailerInfo(S.info_id)>>)
         ELSE write(S, Trailer(VecLen(S.object_offsets)))

\* finish, the footer (lib.rs 408-415); startxref is what the tell before the
\* xref section returned.
footer(S) == IF Stopped(S) THEN S ELSE write(S, Footer(S.pos))

\* finish, from the xref section to the footer (lib.rs 384-415).
write_trailer(S) ==
    Then(xref_head(tell(S)), LAMBDA S2 :
    Then(xref_lines(S2, 1), LAMBDA S3 : footer(trailer(S3))))

\* Mutant of finish: the outline is written before the info object.
finish_outline_first(S) ==
    Then(write_object_with_id(S, PAGE_OBJECT_ID, [fn |-> "pages"]), LAMBDA S1 :
    Then(let_outlines_id(write_outline(S1)), LAMBDA S2 :
    Then(let_info_id(write_info(S2)), LAMBDA S3 :
    Then(catalog_object(S3), write_trailer))))

\* Pdf::finish
finish(S) ==
    Then(write_object_with_id(S, PAGE_OBJECT_ID, [fn |-> "pages"]), LAMBDA S1 :
    Then(let_info_id(write_info(S1)), LAMBDA S2 :
    Then(let_outlines_id(write_outline(S2)), LAMBDA S3 :
    Then(catalog_object(S3), write_trailer))))

\* The Pdf goes out of scope (finish consumed it, or a panic unwinds):
\* BufWriter::drop flushes the buffer and ignores the result.
drop(S) ==
    [S EXCEPT !.file = IF S.io + 1 = S.failAt THEN S.file ELSE S.file \o S.buf,
              !.buf = <<>>]

\* ----------------------------------------------------------------- actions
\* The callbacks explored: one that writes nothing, one that draws, pages with
\* one and two fonts (one requested twice), with one and two outline items, and
\* one that fails after it drew, requested a font and added an outline item.
Callbacks ==
    { <<>>,
      <<OpStroke>>,
      <<OpGetFont("Helvetica"), OpStroke, OpAddOutline("t")>>,
      <<OpGetFont("Symbol"), OpGetFont("Helvetica"), OpGetFont("Symbol")>>,
      <<OpAddOutline("t"), OpAddOutline("u")>>,
      <<OpGetFont("Helvetica"), OpAddOutline("t"), OpStroke, OpFail>> }

\* What an operation returned.
Outcome(S) ==
    IF S.panic # "none" THEN S.panic ELSE IF S.err # "none" THEN S.err ELSE "ok"

\* The fields of the Pdf after an operation.
Commit(S) ==
    /\ file' = S.file
    /\ buf' = S.buf
    /\ object_offsets' = S.object_offsets
    /\ page_object_ids' = S.page_object_ids
    /\ font_object_ids' = S.font_object_ids
    /\ outline' = S.outline
    /\ info' = S.info
    /\ result' = Outcome(S)

\* Pdf::new succeeded: the header is in the file, IDs 0, 1 and 2 are reserved.
Init ==
    /\ file = <<Header>>
    /\ buf = <<>>
    /\ object_offsets = [i \in 0..2 |-> -1]
    /\ page_object_ids = <<>>
    /\ font_object_ids = EmptyMap
    /\ outline = <<>>
    /\ info = EmptyMap
    /\ phase = "open"
    /\ result = "ok"
    /\ calls = <<>>
    /\ arg = [op |-> "none"]
    /\ returned = [op |-> "none"]

\* The set_* methods: an insert into the metadata map.
set_info(key, value) ==
    /\ phase = "open"
    /\ info' = Insert(info, key, value)
    /\ UNCHANGED <<file, buf, object_offsets, page_object_ids, font_object_ids,
                   outline, phase, result, calls, arg, returned>>

SetTitle == \E title \in Strings : set_info("Title", title)
SetAuthor == \E author \in Strings : set_info("Author", author)
SetSubject == \E subject \in Strings : set_info("Subject", subject)
SetKeywords == \E keywords \in Strings : set_info("Keywords", keywords)
SetCreator == \E creator \in Strings : set_info("Creator", creator)
SetProducer == \E producer \in Strings : set_info("Producer", producer)

\* One call of render_page, its callback and its failing flush drawn from the
\* given sets.  A failed assertion unwinds and drops the Pdf.
RenderPageWith(callbacks, failures) ==
    /\ phase = "open"
    /\ Len(calls) < MaxCalls
    /\ \E size \in PageSizes, ops \in callbacks, failAt \in failures,
          hash_order \in Perms(Fonts) :
        \E S \in {render_page(Self(failAt), size[1], size[2], ops, hash_order)} :
          LET ok == Outcome(S) = "ok"
              panicked == S.panic # "none"
          IN /\ Commit(IF panicked THEN drop(S) ELSE S)
             /\ phase' = IF panicked THEN "aborted" ELSE "open"
             /\ calls' = Append(calls,
                    [ok |-> ok,
                     ops |-> IF ok THEN ops ELSE <<>>,
                     errs |-> S.invoked /\ returns_err(ops),
                     content |-> IF ok THEN S.content_object_id ELSE 0,
                     page |-> IF ok THEN S.ret ELSE 0,
                     fonts |-> IF ok THEN S.fonts ELSE EmptyMap,
                     titles |-> IF ok THEN [i \in DOMAIN S.outline_items |->
                                               S.outline_items[i].title]
                                      ELSE <<>>])
             /\ UNCHANGED <<arg, returned>>

RenderPage == RenderPageWith(Callbacks, IoFailures)

\* finish: it consumes the Pdf, whatever it returns.
FinishWith(failures) ==
    /\ phase = "open"
    /\ \E failAt \in failures :
        \E S \in {finish(Self(failAt))} :
             /\ Commit(drop(S))
             /\ phase' = IF S.panic # "none" THEN "aborted" ELSE "finished"
             /\ UNCHANGED <<calls, arg, returned>>

Finish == FinishWith(IoFailures)

\* The core of the writer: pages, one metadata field, the trailer.
Next ==
    \/ SetTitle
    \/ RenderPage
    \/ Finish

Spec == Init /\ [][Next]_vars

\* The metadata of the document: all six set_* methods between pages whose
\* callbacks draw or write nothing, and finish, whose info object's write
\* may fail.
InfoCallbacks == {<<>>, <<OpStroke>>}
InfoFailures == {0, 2}
RenderPageInfo == RenderPageWith(InfoCallbacks, {0})
FinishInfo == FinishWith(InfoFailures)

NextInfo ==
    \/ SetTitle
    \/ SetAuthor
    \/ SetSubject
    \/ SetKeywords
    \/ SetCreator
    \/ SetProducer
    \/ RenderPageInfo
    \/ FinishInfo

SpecInfo == Init /\ [][NextInfo]_vars

\* The content of a page: callbacks that set a dash pattern between two
\* strokes, and callbacks that open text objects whose closure returns Ok or
\* Err, the Err handed on or dropped by the callback.
DashValues == {pt(0 - 1), pt(0), pt(1), NaN}
DashPatterns ==
    {<<>>} \cup {<<a>> : a \in DashValues} \cup {<<a, b>> : a, b \in DashValues}
DashCallbacks == {<<OpStroke, OpSetDash(p, pt(3)), OpStroke>> : p \in DashPatterns}
TextCallbacks ==
    { <<OpText(TRUE, TRUE)>>,
      <<OpText(TRUE, TRUE), OpStroke, OpText(TRUE, TRUE)>>,
      <<OpText(FALSE, TRUE), OpStroke>>,
      <<OpText(FALSE, FALSE), OpStroke>>,
      <<OpText(FALSE, FALSE), OpText(TRUE, TRUE)>> }
RenderPageCanvas == RenderPageWith(DashCallbacks \cup TextCallbacks, {0})
FinishCanvas == FinishWith({0})

NextCanvas ==
    \/ RenderPageCanvas
    \/ FinishCanvas

SpecCanvas == Init /\ [][NextCanvas]_vars

\* ======================================================================
\* Properties
\* ======================================================================
\* Everything written so far: the file, then what the BufWriter still holds.
Written == file \o buf
\* The byte offset at which piece i of a token sequence begins.
PosIn(toks, i) == Bytes(SubSeq(toks, 1, i - 1))
\* The indexes of the pieces of one kind.
Idx(toks, k) == {i \in DOMAIN toks : toks[i].k = k}
\* The pieces of one kind, in order.
OfKind(toks, k) == SelectSeq(toks, LAMBDA t : t.k = k)
\* The index of the last piece of kind k before index i (0 if there is none).
LastBefore(toks, k, i) ==
    LET c == {j \in 1..(i - 1) : toks[j].k = k}
    IN IF c = {} THEN 0 ELSE CHOOSE j \in c : \A x \in c : x <= j
\* The calls of render_page that returned Ok.
OkCalls == SelectSeq(calls, LAMBDA c : c.ok)
AllCallsOk == \A i \in DOMAIN calls : calls[i].ok
\* finish returned Ok and its last bytes reached the file.
FinishedComplete ==
    /\ phase = "finished"
    /\ result = "ok"
    /\ file # <<>>
    /\ file[Len(file)].k = "startxref"

\* C1: when every render_page call and finish succeeded, the offset on the xref
\* line of each object ID k is the byte position at which the header line
\* "k 0 obj" begins in the file, and that header is the only one with that ID.
C1_OffsetIntegrity ==
    (FinishedComplete /\ AllCallsOk) =>
        LET lines == OfKind(file, "xref_n")
        IN \A k \in 1..Len(lines) :
              /\ \E i \in Idx(file, "obj") : file[i].id = k /\ PosIn(file, i) = lines[k].id
              /\ \A i, j \in Idx(file, "obj") : (file[i].id = k /\ file[j].id = k) => i = j

\* C1 witness: a finished document of two pages with fonts, outline items and
\* metadata, all calls successful.
C1_Witness ==
    /\ FinishedComplete
    /\ AllCallsOk
    /\ Len(calls) = 2
    /\ Len(OfKind(file, "xref_n")) >= 9
    /\ Idx(file, "info") # {}
    /\ Idx(file, "outlines") # {}

\* C2: the integer in a length object is the number of bytes between the end of
\* the "stream" line and the "endstream" token of the content stream written
\* just before it: the preamble line plus what the callback wrote (28, the
\* preamble alone, when the callback wrote nothing); the stream's /Length names
\* that length object; every successful render_page wrote one.
C2_LengthCorrect ==
    /\ \A i \in Idx(Written, "length") :
          LET e == LastBefore(Written, "endstream", i)
              s == LastBefore(Written, "stream", e)
          IN /\ s > 0 /\ e = i - 3
             /\ Written[i - 1].k = "obj"
             /\ Written[s].refs[1].id = Written[i - 1].id
             /\ Written[s + 1] = Preamble
             /\ Written[i].id = Bytes(SubSeq(Written, s + 1, e - 1))
             /\ Written[i].id = 28 + Bytes(SubSeq(Written, s + 2, e - 1))
             /\ (e = s + 2 => Written[i].id = 28)
    /\ (phase = "open" =>
          \A c \in DOMAIN OkCalls :
             \E i \in Idx(Written, "length") : Written[i - 1].id = OkCalls[c].content + 1)

\* C2 witness: one page whose callback wrote nothing and one whose callback drew.
C2_Witness ==
    /\ Len(OkCalls) = 2
    /\ \E i, j \in Idx(Written, "length") : Written[i].id = 28 /\ Written[j].id = 30

\* C3: the assertion object_id_length == content_object_id + 1 of render_page
\* never fails, and every length object's ID is one more than the ID of the
\* object written before it, which is a content stream.
C3_LengthIdIsNext ==
    /\ result # "panic_length_id"
    /\ \A i \in Idx(Written, "length") :
          LET h == LastBefore(Written, "obj", i - 1)
          IN /\ Written[i - 1].k = "obj"
             /\ h > 0
             /\ Written[h + 1].k = "stream"
             /\ Written[i - 1].id = Written[h].id + 1

\* C3 witness: a render_page call succeeded after an earlier one failed.
C3_Witness ==
    \E i, j \in DOMAIN calls : i < j /\ ~calls[i].ok /\ calls[j].ok

\* C4: finish fails no assertion: no run ends in a panic of write_object_with_id
\* or of the xref loop; after a successful finish every entry of object_offsets
\* from index 1 on is >= 0; the pages tree, the catalog and the outline parent
\* are each written at most once, and exactly once in a completed file.
C4_FinishAssertionsHold ==
    /\ result \notin {"panic_slot", "panic_xref"}
    /\ phase # "aborted"
    /\ (phase = "finished" /\ result = "ok" =>
          \A id \in 1..(VecLen(object_offsets) - 1) : object_offsets[id] >= 0)
    /\ Cardinality(Idx(Written, "pages")) <= 1
    /\ Cardinality(Idx(Written, "catalog")) <= 1
    /\ Cardinality(Idx(Written, "outlines")) <= 1
    /\ (FinishedComplete =>
          /\ Cardinality(Idx(file, "pages")) = 1
          /\ Cardinality(Idx(file, "catalog")) = 1
          /\ \A i \in Idx(file, "pages") : file[i - 1] = ObjHeader(PAGE_OBJECT_ID)
          /\ \A i \in Idx(file, "catalog") : file[i - 1] = ObjHeader(ROOT_OBJECT_ID))

\* C4 witness: finish succeeded, with an outline, after a failed render_page.
C4_Witness ==
    /\ FinishedComplete
    /\ ~AllCallsOk
    /\ Idx(file, "outlines") # {}

\* C5 (as claimed): no two "N 0 obj" headers written to the file carry the same
\* ID, whatever calls failed before.
C5_IdsNeverReused ==
    \A i, j \in Idx(Written, "obj") : Written[i].id = Written[j].id => i = j

\* C6 (as claimed): after a successful finish every reference "N 0 R" in the
\* file names an ID with a recorded offset >= 0.
C6_ReferencesResolve ==
    FinishedComplete =>
        \A i \in DOMAIN file : \A r \in DOMAIN file[i].refs :
            /\ file[i].refs[r].id \in 1..(VecLen(object_offsets) - 1)
            /\ object_offsets[file[i].refs[r].id] >= 0

\* The font references of a page dictionary, as (number, object ID) pairs.
FontRefsOf(tok) == {<<tok.refs[r].n, tok.refs[r].id>> : r \in {x \in DOMAIN tok.refs : tok.refs[x].key = "F"}}

\* C7: for each font at most one font object is ever written; each entry of the
\* font map names the object written for that font; the page dictionary of every
\* successful call lists, for each font the call requested, the ID the map
\* holds for it; and an entry of the font map never changes or disappears.
C7_FontsWrittenOnce ==
    /\ [](/\ \A i, j \in Idx(Written, "font") : Written[i].data = Written[j].data => i = j
          /\ (phase = "open" =>
                /\ \A f \in DOMAIN font_object_ids :
                      \E i \in Idx(Written, "font") :
                         /\ Written[i].data.name = f
                         /\ Written[i - 1] = ObjHeader(font_object_ids[f])
                /\ \A c \in DOMAIN OkCalls :
                      /\ DOMAIN OkCalls[c].fonts \subseteq DOMAIN font_object_ids
                      /\ \E i \in Idx(Written, "page") :
                            /\ Written[i - 1].id = OkCalls[c].page
                            /\ FontRefsOf(Written[i]) =
                                  {<<OkCalls[c].fonts[f], font_object_ids[f]>> :
                                      f \in DOMAIN OkCalls[c].fonts}))
    /\ [][\A f \in DOMAIN font_object_ids :
             f \in DOMAIN font_object_ids' /\ font_object_ids'[f] = font_object_ids[f]]_vars

\* C7 witness: two pages requested Helvetica and one Helvetica object exists.
C7_Witness ==
    /\ Len(OkCalls) = 2
    /\ \A c \in DOMAIN OkCalls : "Helvetica" \in DOMAIN OkCalls[c].fonts
    /\ Cardinality({i \in Idx(Written, "font") : Written[i].data.name = "Helvetica"}) = 1

\* C8: in a finished file the xref subsection header and the trailer's /Size
\* both hold the number of entries of object_offsets; the free entry follows
\* the header; then come exactly count - 1 in-use lines, the k-th holding the
\* offset of object k; then the trailer.
C8_XrefShape ==
    FinishedComplete =>
        LET count == VecLen(object_offsets)
        IN /\ Cardinality(Idx(file, "xref")) = 1
           /\ Len(OfKind(file, "xref_n")) = count - 1
           /\ \A x \in Idx(file, "xref") :
                 /\ file[x + 1].k = "xref_count" /\ file[x + 1].id = count
                 /\ file[x + 2].k = "xref_f"
                 /\ \A k \in 1..(count - 1) :
                       file[x + 2 + k].k = "xref_n" /\ file[x + 2 + k].id = object_offsets[k]
                 /\ file[x + 2 + count].k = "trailer" /\ file[x + 2 + count].id = count

\* C8 witness: a finished file of two pages with more than six objects.
C8_Witness ==
    /\ FinishedComplete
    /\ Len(OkCalls) = 2
    /\ VecLen(object_offsets) > 9

RECURSIVE Repeat(_, _)
Repeat(s, n) == IF n = 0 THEN <<>> ELSE s \o Repeat(s, n - 1)
KindsOf(toks) == [i \in DOMAIN toks |-> toks[i].k]

\* C9: a successful finish appends, in this order: the pages tree (ID 2), the
\* info object if the metadata map was non-empty, one object per outline item
\* and the outline parent if an item was pending, the catalog (ID 1), the xref
\* section, the trailer and the startxref footer; the number after startxref is
\* the byte offset of the xref keyword; no object follows the catalog.
C9_FinishOrder ==
    [][(/\ phase = "open"
        /\ phase' = "finished"
        /\ result' = "ok"
        /\ file'[Len(file')].k = "startxref")
       =>
       LET before == Len(file) + Len(buf)
           added == SubSeq(file', before + 1, Len(file'))
           has_info == DOMAIN info # {}
           n == Len(outline)
           obj(k) == <<"obj", k, "endobj">>
           expected ==
               obj("pages")
               \o (IF has_info THEN obj("info") ELSE <<>>)
               \o (IF n > 0 THEN Repeat(obj("outline_item"), n) \o obj("outlines") ELSE <<>>)
               \o obj("catalog")
               \o <<"xref", "xref_count", "xref_f">>
               \o Repeat(<<"xref_n">>, VecLen(object_offsets') - 1)
               \o <<"trailer">>
               \o (IF has_info THEN <<"trailer_info">> ELSE <<>>)
               \o <<"startxref">>
       IN /\ SubSeq(file', 1, before) = file \o buf
          /\ KindsOf(added) = expected
          /\ added[1].id = PAGE_OBJECT_ID
          /\ \A i \in Idx(file', "catalog") : file'[i - 1].id = ROOT_OBJECT_ID
          /\ \A i \in Idx(file', "xref") : file'[Len(file')].id = PosIn(file', i)
      ]_vars

\* C9 witness: a finished file with an info object and an outline.
C9_Witness ==
    /\ FinishedComplete
    /\ Idx(file, "info") # {}
    /\ Idx(file, "outlines") # {}
    /\ Len(OfKind(file, "outline_item")) >= 2

\* C10: in a finished file the pages tree's /Count is the number of render_page
\* calls that returned Ok and its /Kids are the IDs of the page dictionaries
\* those calls wrote, in call order; a failed call wrote no page dictionary.
C10_PagesTree ==
    /\ Len(OfKind(Written, "page")) <= Len(OkCalls)
    /\ (FinishedComplete =>
          /\ Len(OfKind(file, "page")) = Len(OkCalls)
          /\ \A p \in Idx(file, "pages") :
                /\ file[p].id = Len(OkCalls)
                /\ Len(file[p].refs) = Len(OkCalls)
                /\ \A c \in DOMAIN OkCalls :
                      /\ file[p].refs[c].id = OkCalls[c].page
                      /\ \E i \in Idx(file, "page") :
                            /\ file[i - 1] = ObjHeader(OkCalls[c].page)
                            /\ file[i].refs[Len(file[i].refs)].id = OkCalls[c].content)

\* C10 witness: a finished file of one page after one failed render_page call.
C10_Witness ==
    /\ FinishedComplete
    /\ Len(calls) = 2
    /\ Len(OkCalls) = 1

\* What a step appended to the output (file and buffer taken together).
Added == SubSeq(file' \o buf', Len(file) + Len(buf) + 1, Len(file') + Len(buf'))
\* A step in which finish returned Ok and its last bytes reached the file.
FinishOkStep ==
    /\ phase = "open"
    /\ phase' = "finished"
    /\ result' = "ok"
    /\ buf' = <<>>
    /\ file'[Len(file')].k = "startxref"
\* A step of one of the set_* methods: the only steps that leave the document
\* open without a new render_page call.
SetStep == phase = "open" /\ phase' = "open" /\ calls' = calls

\* C11: a set_* call writes nothing and allocates no ID, and changes the entry
\* of one metadata field only; a successful finish writes an info object if and
\* only if the metadata map was non-empty, the trailer has /Info exactly then
\* and names that object's ID; the info object holds one entry per field set,
\* with the value the map held (that of the last set_* call for the field).
C11_InfoObject ==
    /\ [][SetStep =>
            /\ file' = file /\ buf' = buf /\ object_offsets' = object_offsets
            /\ \E k \in DOMAIN info' :
                  /\ DOMAIN info' = DOMAIN info \cup {k}
                  /\ \A j \in DOMAIN info \ {k} : info'[j] = info[j]]_vars
    /\ [][FinishOkStep =>
            /\ (DOMAIN info # {}) <=> (Idx(Added, "info") # {})
            /\ (DOMAIN info # {}) <=> (Idx(Added, "trailer_info") # {})
            /\ Cardinality(Idx(Added, "info")) <= 1
            /\ Cardinality(Idx(Added, "trailer_info")) <= 1
            /\ \A i \in Idx(Added, "info") :
                  /\ Added[i - 1].k = "obj"
                  /\ \A t \in Idx(Added, "trailer_info") :
                        Added[t].refs[1].id = Added[i - 1].id
                  /\ Len(Added[i].data) = Cardinality(DOMAIN info)
                  /\ \A key \in DOMAIN info :
                        \E e \in DOMAIN Added[i].data :
                           Added[i].data[e] = <<key, info[key]>>]_vars

\* C11 witness: a finished file of a page and an info object with three fields,
\* Title among them.
C11_Witness ==
    /\ FinishedComplete
    /\ Len(OkCalls) >= 1
    /\ \E i \in Idx(file, "info") :
          /\ Len(file[i].data) = 3
          /\ \E e \in DOMAIN file[i].data : file[i].data[e][1] = "Title"
    /\ Idx(file, "trailer_info") # {}

\* The ID a dictionary piece names under a key, 0 if the key is absent.
RefOf(tok, key) ==
    LET rs == {r \in DOMAIN tok.refs : tok.refs[r].key = key}
    IN IF rs = {} THEN 0 ELSE tok.refs[CHOOSE r \in rs : TRUE].id

RECURSIVE FollowNext(_, _, _)
\* The IDs visited from object `id` along /Next, at most `fuel` of them.
FollowNext(toks, id, fuel) ==
    IF id = 0 \/ fuel = 0 THEN <<>>
    ELSE LET hs == {i \in Idx(toks, "obj") : toks[i].id = id /\ toks[i + 1].k = "outline_item"}
         IN IF hs = {} THEN <<id>>
            ELSE <<id>> \o FollowNext(toks, RefOf(toks[(CHOOSE i \in hs : TRUE) + 1], "Next"), fuel - 1)

\* C12: a successful finish with n >= 1 pending outline items writes n item
\* objects with the IDs p+1..p+n after reserving p for the parent, in list
\* order; item i names /Parent p, /Prev p+i-1 (none for the first) and /Next
\* p+i+1 (none for the last); the parent, object p, names /First p+1, /Last p+n
\* and /Count n; the /Next chain from /First is p+1, .., p+n.
C12_OutlineChain ==
    [][(FinishOkStep /\ outline # <<>>) =>
         LET n == Len(outline)
             items == Idx(Added, "outline_item")
             item(i) == CHOOSE x \in items : Cardinality({y \in items : y <= x}) = i
         IN /\ Cardinality(items) = n
            /\ Cardinality(Idx(Added, "outlines")) = 1
            /\ \A o \in Idx(Added, "outlines") :
                  LET p == Added[o - 1].id
                  IN /\ Added[o - 1].k = "obj"
                     /\ p = VecLen(object_offsets) + (IF DOMAIN info # {} THEN 1 ELSE 0)
                     /\ RefOf(Added[o], "First") = p + 1
                     /\ RefOf(Added[o], "Last") = p + n
                     /\ Added[o].id = n
                     /\ \A i \in 1..n :
                           /\ item(i) < o
                           /\ Added[item(i) - 1] = ObjHeader(p + i)
                           /\ Added[item(i)].data = outline[i].title
                           /\ RefOf(Added[item(i)], "Dest") = outline[i].page_id
                           /\ RefOf(Added[item(i)], "Parent") = p
                           /\ RefOf(Added[item(i)], "Prev") = (IF i = 1 THEN 0 ELSE p + i - 1)
                           /\ RefOf(Added[item(i)], "Next") = (IF i = n THEN 0 ELSE p + i + 1)
                     /\ FollowNext(Added, RefOf(Added[o], "First"), n + 1)
                            = [i \in 1..n |-> p + i]
                     /\ (n = 1 => RefOf(Added[o], "First") = RefOf(Added[o], "Last"))
      ]_vars

\* C12 witness: a finished file whose outline has three items or more.
C12_Witness ==
    /\ FinishedComplete
    /\ Len(OfKind(file, "outline_item")) >= 3
    /\ \E o \in Idx(file, "outlines") : file[o].id >= 3

\* Some successfully rendered page added an outline item.
SomeItemAdded == \E c \in DOMAIN OkCalls : OkCalls[c].titles # <<>>

\* C13: when no successfully rendered page added an outline item, a successful
\* finish writes no outline object, reserves no ID for one (it allocates the
\* info object's ID at most) and its catalog has no /Outlines; when an item
\* exists the catalog's /Outlines names the outline parent object, and the
\* pending list is empty afterwards.
C13_OutlinePresence ==
    [][FinishOkStep =>
         /\ SomeItemAdded <=> (outline # <<>>)
         /\ Cardinality(Idx(Added, "catalog")) = 1
         /\ outline' = <<>>
         /\ \A c \in Idx(Added, "catalog") :
               IF SomeItemAdded
               THEN /\ Cardinality(Idx(Added, "outlines")) = 1
                    /\ \A o \in Idx(Added, "outlines") :
                          /\ RefOf(Added[c], "Outlines") = Added[o - 1].id
                          /\ object_offsets'[Added[o - 1].id] >= 0
               ELSE /\ RefOf(Added[c], "Outlines") = 0
                    /\ Idx(Added, "outlines") = {}
                    /\ Idx(Added, "outline_item") = {}
                    /\ VecLen(object_offsets') =
                           VecLen(object_offsets) + (IF DOMAIN info # {} THEN 1 ELSE 0)
      ]_vars

\* C13 witness: a finished file with pages and no outline, its catalog without
\* /Outlines.
C13_Witness ==
    /\ FinishedComplete
    /\ Len(OkCalls) >= 1
    /\ ~SomeItemAdded
    /\ \E c \in Idx(file, "catalog") : RefOf(file[c], "Outlines") = 0

\* C13 witness, second case: a finished file whose catalog names an outline.
C13_WitnessOutline ==
    /\ FinishedComplete
    /\ SomeItemAdded
    /\ \E c \in Idx(file, "catalog") : RefOf(file[c], "Outlines") > 0

RECURSIVE ItemsOf(_)
\* The outline items of a list of calls: call by call, each call's titles in
\* the order of its add_outline calls, stamped with the call's page ID.
ItemsOf(cs) ==
    IF cs = <<>> THEN <<>>
    ELSE [i \in DOMAIN Head(cs).titles |->
             [title |-> Head(cs).titles[i], page_id |-> Head(cs).page]]
         \o ItemsOf(Tail(cs))

\* C14: while the document is open, the pending outline list is the items of
\* the successful render_page calls in call order, within one call in the order
\* of its add_outline calls, each stamped with the ID of the page dictionary
\* that call wrote; that ID is a page dictionary's and no other call's.
C14_OutlineStamping ==
    phase = "open" =>
        /\ outline = ItemsOf(OkCalls)
        /\ \A i \in DOMAIN outline :
              /\ \E h \in Idx(Written, "obj") :
                    Written[h].id = outline[i].page_id /\ Written[h + 1].k = "page"
              /\ \E c \in DOMAIN OkCalls :
                    /\ OkCalls[c].page = outline[i].page_id
                    /\ \E t \in DOMAIN OkCalls[c].titles :
                          OkCalls[c].titles[t] = outline[i].title
        /\ \A c, d \in DOMAIN OkCalls : OkCalls[c].page = OkCalls[d].page => c = d

\* C14 witness: two pages added items, the second page two of them.
C14_Witness ==
    /\ phase = "open"
    /\ Len(OkCalls) = 2
    /\ Len(OkCalls[1].titles) = 1
    /\ Len(OkCalls[2].titles) = 2
    /\ Len(outline) = 3
    /\ outline[1].page_id # outline[2].page_id

\* The pieces of the content stream that a successful call wrote between the
\* preamble and "endstream".
StreamOf(c) ==
    LET h == CHOOSE i \in Idx(Written, "obj") :
                 /\ Written[i].id = c.content
                 /\ Written[i + 1].k = "stream"
                 /\ \A j \in Idx(Written, "obj") :
                       (Written[j].id = c.content /\ Written[j + 1].k = "stream") => j <= i
        e == CHOOSE j \in Idx(Written, "endstream") :
                 j > h /\ \A x \in Idx(Written, "endstream") : x > h => j <= x
    IN SubSeq(Written, h + 3, e - 1)

\* C15 (as claimed): a set_dash call returns success in every case; it writes
\* one "d" operator with the given array and phase when every entry of the
\* pattern is >= 0 and at least one is > 0, and writes nothing otherwise.
C15_SetDash ==
    \A c \in DOMAIN calls :
        (Len(calls[c].ops) = 3 /\ calls[c].ops[2].op = "set_dash") =>
            LET pattern == calls[c].ops[2].pattern
                dash_phase == calls[c].ops[2].phase
                emits == /\ \A i \in DOMAIN pattern : ~pattern[i].nan /\ pattern[i].v >= 0
                         /\ \E i \in DOMAIN pattern : ~pattern[i].nan /\ pattern[i].v > 0
            IN /\ calls[c].ok
               /\ StreamOf(calls[c]) =
                     <<StrokeOp>>
                     \o (IF emits THEN <<DashOp(pattern, dash_phase)>> ELSE <<>>)
                     \o <<StrokeOp>>

\* C16 (as claimed): in the written output every "BT" is followed by its "ET"
\* before another "BT", the end of the stream or the next object, whether the
\* closure given to Canvas::text returned Ok or Err; the closure ran once
\* between them.
C16_TextBracketing ==
    \A i \in Idx(Written, "BT") :
        /\ i + 2 <= Len(Written)
        /\ Written[i + 1].k = "Td"
        /\ Written[i + 2].k = "ET"

\* A step of a render_page call whose callback was invoked and returned an Err
\* of its own.
FailingCallbackStep ==
    /\ phase = "open"
    /\ Len(calls') = Len(calls) + 1
    /\ calls'[Len(calls')].errs

\* C17: a render_page call whose callback was invoked and returned an Err of
\* its own returns that Err, not an I/O error and not Ok; no length object,
\* font object or page dictionary was written by the call, and the page list,
\* the font map, the outline and object_offsets are as before.
C17_CallbackError ==
    [][FailingCallbackStep =>
         /\ result' = "callback"
         /\ ~calls'[Len(calls')].ok
         /\ Idx(Added, "length") = {}
         /\ Idx(Added, "font") = {}
         /\ Idx(Added, "page") = {}
         /\ Idx(Added, "endstream") = {}
         /\ Cardinality(Idx(Added, "obj")) = 1
         /\ page_object_ids' = page_object_ids
         /\ font_object_ids' = font_object_ids
         /\ outline' = outline
         /\ object_offsets' = object_offsets
      ]_vars

\* C17 witness: after one page, a call whose callback drew and failed; the
\* page list still holds the one page.
C17_Witness ==
    /\ phase = "open"
    /\ result = "callback"
    /\ Len(calls) = 2
    /\ calls[1].ok /\ ~calls[2].ok
    /\ Len(page_object_ids) = 1
    /\ Idx(Written, "S") # {}

\* C18 (as claimed): no failure of the output is swallowed, the one of the
\* flush of finish's last buffered bytes included: whenever finish returned Ok,
\* everything it wrote reached the file, which ends with the startxref footer.
C18_NoFailureSwallowed ==
    (phase = "finished" /\ result = "ok") =>
        /\ buf = <<>>
        /\ file[Len(file)].k = "startxref"
        /\ Cardinality(Idx(file, "catalog")) = 1

\* All texts of at most MaxLen characters.
Texts == UNION {[1..n -> Chars] : n \in 0..MaxLen}

\* ---------------------------------------------------- specification: encode
\* The document is the one Pdf::new created; a text is about to be encoded.
InitEncode ==
    /\ file = <<Header>> /\ buf = <<>>
    /\ object_offsets = [i \in 0..2 |-> -1] /\ page_object_ids = <<>>
    /\ font_object_ids = EmptyMap /\ outline = <<>> /\ info = EmptyMap
    /\ phase = "open" /\ result = "ok" /\ calls = <<>>
    /\ arg \in [op : {"encode_string"}, encoding : Encodings, text : Texts]
    /\ returned = [op |-> "none"]

\* A call of Encoding::encode_string.
EncodeString ==
    /\ arg.op = "encode_string"
    /\ returned.op = "none"
    /\ returned' = [op |-> "encode_string",
                    bytes |-> encode_string(arg.encoding, arg.text)]
    /\ UNCHANGED <<file, buf, object_offsets, page_object_ids, font_object_ids,
                   outline, info, phase, result, calls, arg>>

NextEncode == EncodeString

SpecEncode == InitEncode /\ [][NextEncode]_vars

\* The byte a character stands for in the output: its code, '?' without one.
ByteOf(encoding, ch) ==
    IF encode_char(encoding, ch) = None THEN 63 ELSE encode_char(encoding, ch)

\* The output read back as a PDF literal string: a backslash followed by
\* '\\', '(' or ')' stands for that byte, another byte for itself; a bare
\* '(' , ')' or a backslash followed by anything else is read as None.
RECURSIVE Unescaped(_)
Unescaped(bytes) ==
    IF bytes = <<>> THEN <<>>
    ELSE IF bytes[1] = 92
         THEN IF Len(bytes) >= 2 /\ bytes[2] \in {92, 40, 41}
              THEN <<bytes[2]>> \o Unescaped(SubSeq(bytes, 3, Len(bytes)))
              ELSE <<None>> \o Unescaped(Tail(bytes))
    ELSE IF bytes[1] \in {40, 41} THEN <<None>> \o Unescaped(Tail(bytes))
    ELSE <<bytes[1]>> \o Unescaped(Tail(bytes))

\* The characters of a text whose byte is escaped.
EscapedChars(encoding, chars) ==
    {i \in DOMAIN chars : ByteOf(encoding, chars[i]) \in {92, 40, 41}}

\* C19: encode_string yields, character by character and in order, the
\* character's byte in the encoding or '?' when it has none, with one
\* backslash before every byte equal to a backslash, '(' or ')': the output
\* has one byte per character plus one per escaped character, every
\* backslash, '(' and ')' in it is part of an escape, and read back it is the
\* sequence of the characters' bytes.
C19_EncodeString ==
    returned.op = "encode_string" =>
        /\ Len(returned.bytes) =
               Len(arg.text) + Cardinality(EscapedChars(arg.encoding, arg.text))
        /\ Unescaped(returned.bytes) =
               [i \in DOMAIN arg.text |-> ByteOf(arg.encoding, arg.text[i])]

\* C19 witness: a text with a character that has no mapping, a character
\* mapped to another code than its own, and an escaped byte has been encoded.
C19_Witness ==
    /\ returned.op = "encode_string"
    /\ \E i, j, k \in DOMAIN arg.text :
        /\ encode_char(arg.encoding, arg.text[i]) = None
        /\ encode_char(arg.encoding, arg.text[j]) \notin {None, arg.text[j]}
        /\ k \in EscapedChars(arg.encoding, arg.text)
        /\ i # j /\ i # k /\ j # k

\* The fonts measured: FontSource::new(name, encoding, metrics).
FontSources ==
    { [encoding |-> "WinAnsiEncoding", metrics |-> TimesRomanWidths],
      [encoding |-> "ZapfDingbatsEncoding", metrics |-> WideWidths] }

\* A text repeated n times (tests/lib.rs 20-23).
RECURSIVE repeated(_, _)
repeated(chars, n) == IF n = 0 THEN <<>> ELSE repeated(chars, n - 1) \o chars

\* The ways of cutting the texts in two.
Cuts == UNION {{[s |-> SubSeq(x, 1, c), t |-> SubSeq(x, c + 1, Len(x))] :
                    c \in 0..Len(x)} : x \in Texts}

\* ----------------------------------------------------- specification: width
\* The document is the one Pdf::new created; either the two parts of a text
\* and the whole, or a text and its repetition, are about to be measured.
InitWidth ==
    /\ file = <<Header>> /\ buf = <<>>
    /\ object_offsets = [i \in 0..2 |-> -1] /\ page_object_ids = <<>>
    /\ font_object_ids = EmptyMap /\ outline = <<>> /\ info = EmptyMap
    /\ phase = "open" /\ result = "ok" /\ calls = <<>>
    /\ \/ \E font \in FontSources, cut \in Cuts :
            arg = [op |-> "parts", font |-> font, s |-> cut.s, t |-> cut.t]
       \/ \E font \in FontSources, s \in Texts, n \in 0..MaxRepeat :
            arg = [op |-> "repeated", font |-> font, s |-> s, n |-> n]
    /\ returned = [op |-> "none"]

\* raw_text_width of two texts and of their concatenation.
MeasureParts ==
    /\ arg.op = "parts"
    /\ returned.op = "none"
    /\ returned' = [op |-> "parts",
                    s |-> raw_text_width(arg.font, arg.s),
                    t |-> raw_text_width(arg.font, arg.t),
                    whole |-> raw_text_width(arg.font, arg.s \o arg.t)]
    /\ UNCHANGED <<file, buf, object_offsets, page_object_ids, font_object_ids,
                   outline, info, phase, result, calls, arg>>

\* raw_text_width of a text and of the text repeated n times
\* (tests/lib.rs 14-27).
MeasureRepeated ==
    /\ arg.op = "repeated"
    /\ returned.op = "none"
    /\ returned' = [op |-> "repeated",
                    once |-> raw_text_width(arg.font, arg.s),
                    long |-> raw_text_width(arg.font, repeated(arg.s, arg.n))]
    /\ UNCHANGED <<file, buf, object_offsets, page_object_ids, font_object_ids,
                   outline, info, phase, result, calls, arg>>

NextWidth == MeasureParts \/ MeasureRepeated

SpecWidth == InitWidth /\ [][NextWidth]_vars

\* C20: for a fixed font, raw_text_width of a concatenation is the sum of
\* the raw_text_widths of its parts, and the width of a text repeated n
\* times is n times the width of the text (every sum explored is below
\* 2^32).
C20_WidthAdditive ==
    /\ returned.op = "parts" => returned.whole = returned.s + returned.t
    /\ returned.op = "repeated" => returned.long = arg.n * returned.once

\* C20 witness: a text with an escaped byte, a character without a code and
\* a code without a width, all within the first part, has been measured in
\* two non-empty parts, each wider than zero.
C20_Witness ==
    /\ returned.op = "parts"
    /\ Len(arg.s) >= 2 /\ Len(arg.t) >= 1
    /\ returned.s > 0 /\ returned.t > 0
    /\ \E i, j \in DOMAIN arg.s :
        /\ encode_char(arg.font.encoding, arg.s[i]) = None
        /\ encode_char(arg.font.encoding, arg.s[j]) \in {92, 40, 41}
    /\ \E k \in DOMAIN arg.t :
        get_width(arg.font.metrics, ByteOf(arg.font.encoding, arg.t[k])) = None

\* ------------------------------------------------------------------ circle
\* UserSpace.pt is an f32.  The coordinates of the circles explored are
\* written as integers counting 2^-24 point, so that 1.0 is 2^24; every such
\* integer below 2^24 in magnitude is an f32, and beyond it the f32 values lie
\* 2, 4, 8, .. apart (24-bit significand).
One == 2 ^ 24
Half == 2 ^ 23

Abs(n) == IF n < 0 THEN 0 - n ELSE n

\* The distance between neighbouring f32 values at magnitude n.
Ulp(n) ==
    IF Abs(n) < 2 ^ 24 THEN 1
    ELSE IF Abs(n) < 2 ^ 25 THEN 2
    ELSE IF Abs(n) < 2 ^ 26 THEN 4
    ELSE IF Abs(n) < 2 ^ 27 THEN 8
    ELSE 16

\* n >= 0 rounded to a multiple of q, to the nearest, a tie to the even
\* multiple.
RoundTo(n, q) ==
    IF 2 * (n % q) < q THEN n - (n % q)
    ELSE IF 2 * (n % q) > q THEN n - (n % q) + q
    ELSE IF (n \div q) % 2 = 0 THEN n - (n % q)
    ELSE n - (n % q) + q

\* The f32 nearest to n (IEEE 754 round to nearest, ties to even): the result
\* of an f32 operation whose exact result is n.
f32(n) == IF n < 0 THEN 0 - RoundTo(0 - n, Ulp(n)) ELSE RoundTo(n, Ulp(n))

\* Add and Sub for UserSpace (units/mod.rs 116-143): self.pt + other.pt and
\* self.pt - other.pt, in f32.
UserSpace_add(a, b) == f32(a + b)
UserSpace_sub(a, b) == f32(a - b)

\* The literal 0.551_915_05 as an f32: 9259598 * 2^-24.
c == 9259598

\* r * c (canvas.rs 165) for a radius r that is a multiple of 0.5: the exact
\* product (r / 0.5) * (c / 2), rounded to f32.
UserSpace_mul_c(r) == f32((r \div Half) * (c \div 2))

\* write!(self.output, "{} {} m ", x, y) and writeln!(self.output,
\* "{} {} {} {} {} {} c", ..): the operator and the numbers it prints ("{}"
\* prints distinct f32 values as distinct texts).
MoveTo(x, y) == [op |-> "m", args |-> <<x, y>>]
CurveTo(x1, y1, x2, y2, x3, y3) == [op |-> "c", args |-> <<x1, y1, x2, y2, x3, y3>>]

\* A variant of circle_path whose last curve has the control points of the
\* second one.
circle_path_down_twice(x, y, top, bottom, left, right, up, down, leftp, rightp) ==
    << MoveTo(x, top),
       CurveTo(leftp, top, left, up, left, y),
       CurveTo(left, down, leftp, bottom, x, bottom),
       CurveTo(rightp, bottom, right, down, right, y),
       CurveTo(right, down, rightp, bottom, x, top) >>

\* Canvas::circle, the five operators written (canvas.rs 170-174).
circle_path(x, y, top, bottom, left, right, up, down, leftp, rightp) ==
    << MoveTo(x, top),
       CurveTo(leftp, top, left, up, left, y),
       CurveTo(left, down, leftp, bottom, x, bottom),
       CurveTo(rightp, bottom, right, down, right, y),
       CurveTo(right, up, rightp, top, x, top) >>

\* Canvas::circle, given dist = r * c (canvas.rs 166-169).
circle_dist(x, y, r, dist) ==
    circle_path(x, y,
                UserSpace_sub(y, r), UserSpace_add(y, r),
                UserSpace_sub(x, r), UserSpace_add(x, r),
                UserSpace_sub(y, dist), UserSpace_add(y, dist),
                UserSpace_sub(x, dist), UserSpace_add(x, dist))

\* Canvas::circle (canvas.rs 152-176): what it writes to the content stream.
circle(x, y, r) == circle_dist(x, y, r, UserSpace_mul_c(r))

\* The centres and radii explored.
CircleCoords == {0 - One, 0, One, 2 * One, 3 * One, 5 * Half}
CircleRadii == {Half, One, 3 * Half, 2 * One, 5 * Half}

\* --------------------------------------------------- specification: circle
\* The document is the one Pdf::new created; a callback is about to draw a
\* circle.
InitCircle ==
    /\ file = <<Header>> /\ buf = <<>>
    /\ object_offsets = [i \in 0..2 |-> -1] /\ page_object_ids = <<>>
    /\ font_object_ids = EmptyMap /\ outline = <<>> /\ info = EmptyMap
    /\ phase = "open" /\ result = "ok" /\ calls = <<>>
    /\ arg \in [op : {"circle"}, x : CircleCoords, y : CircleCoords, r : CircleRadii]
    /\ returned = [op |-> "none"]

\* A call of Canvas::circle.
Circle ==
    /\ arg.op = "circle"
    /\ returned.op = "none"
    /\ returned' = [op |-> "circle", path |-> circle(arg.x, arg.y, arg.r)]
    /\ UNCHANGED <<file, buf, object_offsets, page_object_ids, font_object_ids,
                   outline, info, phase, result, calls, arg>>

NextCircle == Circle

SpecCircle == InitCircle /\ [][NextCircle]_vars

\* The shape of the path: a move-to, then exactly four curve-to.
CircleShape(path) ==
    /\ Len(path) = 5
    /\ path[1].op = "m"
    /\ \A k \in 2..5 : path[k].op = "c"

\* The point an operator ends at: the last two numbers it prints.
EndPoint(o) == <<o.args[Len(o.args) - 1], o.args[Len(o.args)]>>

\* The path starts at (x, y - r), and the curves end at (x - r, y),
\* (x, y + r), (x + r, y) and (x, y - r).
CircleEndPoints(path, x, y, r) ==
    /\ EndPoint(path[1]) = <<x, f32(y - r)>>
    /\ EndPoint(path[2]) = <<f32(x - r), y>>
    /\ EndPoint(path[3]) = <<x, f32(y + r)>>
    /\ EndPoint(path[4]) = <<f32(x + r), y>>
    /\ EndPoint(path[5]) = EndPoint(path[1])

\* How far two numbers are from being mirror images through m, doubled.
Off(a, b, m) == 2 * Abs(a + b - 2 * m)

\* C21 as stated: one move-to and four curve-to, the end points as above,
\* and the control points of curve k exactly the mirror images through
\* (x, y) of those of curve k+2.
C21_CircleExactMirror ==
    returned.op = "circle" =>
        /\ CircleShape(returned.path)
        /\ CircleEndPoints(returned.path, arg.x, arg.y, arg.r)
        /\ \A k \in 2..3 : \A i \in 1..4 :
              Off(returned.path[k].args[i], returned.path[k + 2].args[i],
                  IF i % 2 = 1 THEN arg.x ELSE arg.y) = 0

\* C21 amended: one move-to and four curve-to, the end points as above, and
\* the control points of curve k are the mirror images through (x, y) of
\* those of curve k+2 up to the rounding of the two f32 sums: the two
\* coordinates differ from an exact mirror pair by at most half an f32 step
\* each.
C21_CircleMirror ==
    returned.op = "circle" =>
        /\ CircleShape(returned.path)
        /\ CircleEndPoints(returned.path, arg.x, arg.y, arg.r)
        /\ \A k \in 2..3 : \A i \in 1..4 :
              Off(returned.path[k].args[i], returned.path[k + 2].args[i],
                  IF i % 2 = 1 THEN arg.x ELSE arg.y)
                <= Ulp(returned.path[k].args[i]) + Ulp(returned.path[k + 2].args[i])

\* C21 witness: a circle has been written whose control points are rounded
\* differently on the two sides of the centre.
C21_Witness ==
    /\ returned.op = "circle"
    /\ CircleShape(returned.path)
    /\ Off(returned.path[2].args[1], returned.path[4].args[1], arg.x) > 0

\* --------------------------------------------------- specification: sample
\* The pages of the sample documents: a stroked rectangle and one centred
\* text in one font ("H " or the empty text, at 10 or 20 points).
SampleTexts == {<<>>, <<72, 32>>}
SampleSizes == {pt(10), pt(20)}
SampleCallbacks ==
    { << OpRectangle(pt(10), pt(10), pt(100), pt(50)), OpStroke,
         OpPlaceText("center_text", pt(90), pt(100), font, size, chars) >> :
          font \in Fonts, size \in SampleSizes, chars \in SampleTexts }
RenderPageSample == RenderPageWith(SampleCallbacks, {0})
FinishSample == FinishWith({0})

NextSample ==
    \/ SetTitle
    \/ RenderPageSample
    \/ FinishSample

SpecSample == Init /\ [][NextSample]_vars

\* What object an xref line of a file points at: the piece that follows the
\* header "id 0 obj" beginning at that byte offset ("none" if no header
\* begins there).
ObjectAt(toks, offset) ==
    LET hs == {i \in Idx(toks, "obj") : PosIn(toks, i) = offset}
    IN IF hs = {} THEN "none" ELSE toks[(CHOOSE i \in hs : TRUE) + 1].k

\* How many in-use xref lines of a file point at an object of a kind.
Listed(toks, kind) ==
    Cardinality({k \in Idx(toks, "xref_n") : ObjectAt(toks, toks[k].id) = kind})

\* The step that finishes a document of one page whose callback drew a
\* stroked rectangle and one centred text.
SampleFinishStep ==
    /\ FinishOkStep
    /\ Len(calls) = 1
    /\ calls[1].ok
    /\ calls[1].ops \in SampleCallbacks

\* C22 as stated: the xref table of the sample document lists exactly the
\* catalog, the pages tree, the content stream, the length object and one font
\* object, plus the info object when metadata was set.
C22_SampleXref ==
    [][SampleFinishStep =>
        /\ Listed(file', "catalog") = 1 /\ Listed(file', "pages") = 1
        /\ Listed(file', "stream") = 1 /\ Listed(file', "length") = 1
        /\ Listed(file', "font") = 1
        /\ Listed(file', "info") = (IF info = EmptyMap THEN 0 ELSE 1)
        /\ Len(OfKind(file', "xref_n")) = 5 + Listed(file', "info")]_vars

\* C22 amended: the xref table of the sample document lists exactly the
\* catalog, the pages tree, the content stream, the length object, one font
\* object and the page dictionary, plus the info object when metadata was set.
C22_SampleXrefWithPage ==
    [][SampleFinishStep =>
        /\ Listed(file', "catalog") = 1 /\ Listed(file', "pages") = 1
        /\ Listed(file', "stream") = 1 /\ Listed(file', "length") = 1
        /\ Listed(file', "font") = 1 /\ Listed(file', "page") = 1
        /\ Listed(file', "info") = (IF info = EmptyMap THEN 0 ELSE 1)
        /\ Len(OfKind(file', "xref_n")) = 6 + Listed(file', "info")]_vars

\* C22 witness: a sample document with metadata has been finished, its
\* content stream holding the rectangle, the stroke and the text object.
C22_Witness ==
    /\ FinishedComplete
    /\ Len(calls) = 1
    /\ calls[1].ok
    /\ calls[1].ops \in SampleCallbacks
    /\ Listed(file, "info") = 1
    /\ KindsOf(StreamOf(calls[1])) = <<"re", "S", "BT", "Tf", "Td", "Tj", "ET">>

\* ---------------------------------------------------- specification: fonts
\* Pages that request fonts with get_font alone (the font is never selected)
\* and through left_text, right_text and center_text, one font twice on a
\* page, in both orders of the two fonts.
PlaceText(op, font) == OpPlaceText(op, pt(90), pt(100), font, pt(10), <<72, 32>>)
FontCallbacks ==
    { <<OpStroke>>,
      <<OpGetFont("Helvetica")>>,
      <<PlaceText("center_text", "Symbol")>>,
      <<PlaceText("left_text", "Symbol"), PlaceText("center_text", "Helvetica"),
        PlaceText("right_text", "Symbol")>>,
      <<PlaceText("right_text", "Helvetica"), OpGetFont("Symbol"),
        PlaceText("left_text", "Helvetica")>> }
RenderPageFonts == RenderPageWith(FontCallbacks, {0, 4})
FinishFonts == FinishWith({0})

NextFonts ==
    \/ RenderPageFonts
    \/ FinishFonts

SpecFonts == Init /\ [][NextFonts]_vars

\* The operations of a callback that call get_font, and those that select the
\* font they get in a text object.
CallsGetFont(o) == o.op \in {"get_font", "left_text", "right_text", "center_text"}
SelectsFont(o) == o.op \in {"left_text", "right_text", "center_text"}
\* The fonts a callback requests, in the order of its requests.
Requests(ops) ==
    LET rs == SelectSeq(ops, CallsGetFont) IN [i \in DOMAIN rs |-> rs[i].font]
\* The fonts a callback selects, in order.
Selections(ops) ==
    LET rs == SelectSeq(ops, SelectsFont) IN [i \in DOMAIN rs |-> rs[i].font]
\* The number of distinct fonts requested before the first request of f.
Rank(reqs, f) ==
    LET first == CHOOSE i \in DOMAIN reqs :
                     reqs[i] = f /\ \A j \in DOMAIN reqs : reqs[j] = f => i <= j
    IN Cardinality({reqs[j] : j \in 1..(first - 1)})

\* C23: on a page, the k-th distinct font requested gets the name F(k-1);
\* every request for a font, the first and the repeated ones, returns that
\* name (the Tf operators of the page print it); distinct fonts of a page
\* have distinct names; the numbers depend on the page's own requests only,
\* so they start at F0 on every page whatever the fonts' object IDs are.
C23_LocalFontNames ==
    \A n \in DOMAIN calls :
        calls[n].ok =>
            LET reqs == Requests(calls[n].ops)
                sels == Selections(calls[n].ops)
                tfs == OfKind(StreamOf(calls[n]), "Tf")
            IN /\ DOMAIN calls[n].fonts = {reqs[i] : i \in DOMAIN reqs}
               /\ \A f \in DOMAIN calls[n].fonts : calls[n].fonts[f] = Rank(reqs, f)
               /\ \A f, g \in DOMAIN calls[n].fonts :
                     calls[n].fonts[f] = calls[n].fonts[g] => f = g
               /\ Len(tfs) = Len(sels)
               /\ \A i \in DOMAIN tfs : tfs[i].data.font = Rank(reqs, sels[i])

\* C23 witness: a second page names Symbol F0 and Helvetica F1 and selects
\* Symbol twice, although Helvetica's object was written before Symbol's.
C23_Witness ==
    /\ Len(calls) = 2
    /\ calls[1].ok /\ calls[2].ok
    /\ DOMAIN calls[1].fonts = {"Helvetica"}
    /\ calls[2].fonts = [Symbol |-> 0, Helvetica |-> 1]
    /\ font_object_ids["Helvetica"] < font_object_ids["Symbol"]
    /\ Len(OfKind(StreamOf(calls[2]), "Tf")) = 3

\* C24: every font for which get_font was called during the callback of a
\* successful render_page, by the callback itself or by left_text, right_text
\* or center_text, selected or not, has an entry "Fn id 0 R" in the /Font
\* dictionary of that page, n being the font's number on the page and id the
\* ID of an object written in the file that is the font object of that font.
C24_PageFontResources ==
    \A n \in DOMAIN calls :
        calls[n].ok =>
            \A r \in DOMAIN Requests(calls[n].ops) :
                \E p \in Idx(Written, "page") :
                    /\ Written[p - 1] = ObjHeader(calls[n].page)
                    /\ \E e \in FontRefsOf(Written[p]) :
                          /\ e[1] = Rank(Requests(calls[n].ops), Requests(calls[n].ops)[r])
                          /\ \E i \in Idx(Written, "font") :
                                /\ Written[i - 1] = ObjHeader(e[2])
                                /\ Written[i].data.name = Requests(calls[n].ops)[r]

\* C24 witness: a successful page requested Helvetica with get_font alone,
\* after an earlier page had written Helvetica's object.
C24_Witness ==
    /\ Len(calls) = 2
    /\ calls[1].ok /\ calls[2].ok
    /\ "Helvetica" \in DOMAIN calls[1].fonts
    /\ calls[2].ops = <<OpGetFont("Helvetica")>>

\* ------------------------------------------------------- object ID density
\* An object with this ID was written up to its endobj line.
Completed(toks, id) ==
    \E i \in Idx(toks, "obj") :
        /\ toks[i].id = id
        /\ \E j \in Idx(toks, "endobj") :
              i < j /\ \A m \in Idx(toks, "obj") : ~(i < m /\ m < j)

\* The IDs handed out by a step: those of the object headers the step wrote
\* (the fixed IDs 1 and 2 apart) and those of the entries it reserved.
HandedOut ==
    {Written'[i].id : i \in {m \in Idx(Written', "obj") :
                                m > Len(Written) /\ Written'[m].id >= 3}}
    \cup {id \in DOMAIN object_offsets' \ DOMAIN object_offsets :
             object_offsets'[id] = -1}

\* C25: every allocation returns the current length of object_offsets: the
\* IDs a step hands out are the consecutive numbers from the length before
\* the step, with no gap; object_offsets never shrinks, its entries are never
\* renumbered, and it has grown by one entry for each of these IDs whose
\* object was completed or reserved (only the last ID handed out may belong to
\* an object that was not completed); every entry from 3 on is a reserved
\* entry or the entry of a completed object.
C25_DenseIds ==
    /\ [](\A id \in 3..(VecLen(object_offsets) - 1) :
             object_offsets[id] = -1 \/ Completed(Written, id))
    /\ [][/\ SubSeq(Written', 1, Len(Written)) = Written
          /\ VecLen(object_offsets') >= VecLen(object_offsets)
          /\ DOMAIN object_offsets' = 0..(VecLen(object_offsets') - 1)
          /\ HandedOut \in {VecLen(object_offsets)..(VecLen(object_offsets') - 1),
                            VecLen(object_offsets)..VecLen(object_offsets')}]_vars

\* C25 witness: a finished document with an outline, written after a failed
\* render_page call, whose objects have the IDs 1 to 7 or more.
C25_Witness ==
    /\ FinishedComplete
    /\ ~AllCallsOk
    /\ Idx(file, "outlines") # {}
    /\ VecLen(object_offsets) >= 8
    /\ \A id \in 1..(VecLen(object_offsets) - 1) : Completed(file, id)

\* C26 (as claimed): every font object written is a Type1 font dictionary
\* whose /BaseFont is the font's name and whose /Encoding names the encoding
\* the font's strings are encoded with: the platform base encoding for a
\* text font, the font's own symbolic encoding for Symbol and ZapfDingbats.
C26_FontDictEncoding ==
    \A i \in Idx(Written, "font") :
        /\ Written[i].data.name \in Fonts
        /\ Written[i].data.encoding = font_encoding(Written[i].data.name)

\* ----------------------------------------------- specification: text objects
\* Longest closure of the first text object of a page.
MaxOps == 3

\* The Euro sign (128 in WinAnsiEncoding, 0o240 in the Symbol encoding), '('
\* (escaped) and an airplane (in neither encoding).
ShownText == <<8364, 40, 9992>>
\* The operations the closures are made of.
TextOps ==
    {TSetFont("Helvetica", pt(10)), TSetFont("Symbol", pt(10)),
     TShow(ShownText), TShowLine(ShownText), TShowAdjusted(ShownText, 5),
     TGsave, TGrestore}
TextClosures == UNION {[1..n -> TextOps] : n \in 0..MaxOps}
\* The closures of the second text object of a page.
SecondClosures ==
    { <<TShowLine(ShownText)>>,
      <<TShow(ShownText), TGsave, TSetFont("Symbol", pt(10)), TGrestore,
        TShowAdjusted(ShownText, 5)>> }
\* A page gets both fonts, then fills two text objects.
TextObjectCallbacks ==
    { <<OpGetFont("Helvetica"), OpGetFont("Symbol"), OpTextObject(t1), OpTextObject(t2)>> :
          t1 \in TextClosures, t2 \in SecondClosures }

\* Documents of one page.
RenderPageText == calls = <<>> /\ RenderPageWith(TextObjectCallbacks, {0})
FinishText == FinishWith({0})

NextText ==
    \/ RenderPageText
    \/ FinishText

SpecText == Init /\ [][NextText]_vars

\* The encoding of the font of the last set_font before step i of a closure,
\* the platform's base encoding when there is none.
ActiveEncoding(tops, i) ==
    IF \E j \in 1..(i - 1) : tops[j].op = "set_font"
    THEN font_encoding(tops[CHOOSE j \in 1..(i - 1) :
                                /\ tops[j].op = "set_font"
                                /\ \A m \in 1..(i - 1) : tops[m].op = "set_font" => m <= j].font)
    ELSE get_base_enc
IsShow(t) == t.op \in {"show", "show_line", "show_adjusted"}
ShowSteps(tops) == SelectSeq([i \in DOMAIN tops |-> i], LAMBDA i : IsShow(tops[i]))
\* The strings a closure shows, each encoded with the encoding active at its step.
ShownBy(tops) ==
    [m \in DOMAIN ShowSteps(tops) |->
        encode_string(ActiveEncoding(tops, ShowSteps(tops)[m]), tops[ShowSteps(tops)[m]].text)]
RECURSIVE ShownByAll(_)
\* The same for the text objects of a callback, one after the other.
ShownByAll(ops) ==
    IF ops = <<>> THEN <<>>
    ELSE (IF Head(ops).op = "text_object" THEN ShownBy(Head(ops).closure) ELSE <<>>)
             \o ShownByAll(Tail(ops))
\* The strings of the Tj, ' and TJ operators of a content stream.
StringsOf(toks) ==
    LET shows == SelectSeq(toks, LAMBDA t : t.k \in {"Tj", "'", "TJ"})
    IN [i \in DOMAIN shows |-> shows[i].data]

\* C27: in a text object, show, show_line and show_adjusted write their
\* string in the encoding of the font of the latest set_font of that text
\* object, and in the platform's base encoding when there was none; gsave and
\* grestore do not change the encoding; a new text object starts from the base
\* encoding whatever the text object before it selected.
C27_ActiveEncoding ==
    \A n \in DOMAIN calls :
        calls[n].ok => StringsOf(StreamOf(calls[n])) = ShownByAll(calls[n].ops)

\* C27 witness: a page whose first text object shows a string, selects Symbol
\* and shows it again, and whose second text object shows it, selects Symbol
\* between gsave and grestore and shows it again: the strings are in the base
\* encoding, the Symbol encoding, the base encoding, the Symbol encoding.
C27_Witness ==
    /\ Len(calls) = 1
    /\ calls[1].ok
    /\ calls[1].ops[3].closure =
           <<TShow(ShownText), TSetFont("Symbol", pt(10)), TShowLine(ShownText)>>
    /\ calls[1].ops[4].closure # <<TShowLine(ShownText)>>
    /\ StringsOf(StreamOf(calls[1])) =
           <<encode_string(get_base_enc, ShownText), encode_string("SymbolEncoding", ShownText),
             encode_string(get_base_enc, ShownText), encode_string("SymbolEncoding", ShownText)>>
    /\ encode_string(get_base_enc, ShownText) # encode_string("SymbolEncoding", ShownText)

\* C28: a render_page call whose callback returned an Err leaves
\* object_offsets, the page list, the font map, the outline list and the
\* metadata as they were; the one object header the call wrote carries an ID
\* that object_offsets does not hold after the call (the font requested and
\* the outline item added by the callback are in none of the maps and lists).
C28_FailedCallbackState ==
    [][FailingCallbackStep =>
          /\ <<object_offsets', page_object_ids', font_object_ids', outline', info'>>
                 = <<object_offsets, page_object_ids, font_object_ids, outline, info>>
          /\ Idx(Added, "obj") # {}
          /\ \A i \in Idx(Added, "obj") : Added[i].id \notin DOMAIN object_offsets'
      ]_vars

\* C28 witness: the only call so far ran a callback that drew, requested a
\* font, added an outline item and failed; metadata was set before; the
\* document has no page, no font and no outline item, and three entries in
\* object_offsets, while the header of object 3 is in the output.
C28_Witness ==
    /\ phase = "open"
    /\ Len(calls) = 1
    /\ calls[1].errs
    /\ Idx(Written, "S") # {}
    /\ info # EmptyMap
    /\ font_object_ids = EmptyMap
    /\ outline = <<>>
    /\ page_object_ids = <<>>
    /\ VecLen(object_offsets) = 3
    /\ \E i \in Idx(Written, "obj") : Written[i].id = 3

\* ------------------------------------------ specification: the two widths
\* From<BuiltinFont> for FontSource (fontsource.rs 84-98): the font's
\* encoding and metrics.
FontSource_from(font) == [encoding |-> font_encoding(font), metrics |-> font_metrics(font)]

\* The document is the one Pdf::new created; a text is about to be measured
\* in a builtin font, through the FontSource and through the FontRef that
\* get_font makes of it.
InitBoth ==
    /\ file = <<Header>> /\ buf = <<>>
    /\ object_offsets = [i \in 0..2 |-> -1] /\ page_object_ids = <<>>
    /\ font_object_ids = EmptyMap /\ outline = <<>> /\ info = EmptyMap
    /\ phase = "open" /\ result = "ok" /\ calls = <<>>
    /\ \E font \in Fonts, s \in Texts : arg = [op |-> "both", font |-> font, s |-> s]
    /\ returned = [op |-> "none"]

\* FontSource::raw_text_width and FontRef::raw_text_width of the same text.
MeasureBoth ==
    /\ arg.op = "both"
    /\ returned.op = "none"
    /\ returned' = [op |-> "both",
                    source |-> raw_text_width(FontSource_from(arg.font), arg.s),
                    fontref |-> FontRef_raw_text_width(FontRef_new(0, arg.font), arg.s)]
    /\ UNCHANGED <<file, buf, object_offsets, page_object_ids, font_object_ids,
                   outline, info, phase, result, calls, arg>>

NextBoth == MeasureBoth

SpecBoth == InitBoth /\ [][NextBoth]_vars

\* C29 (as claimed): for every font and every text, texts with '(' ')' or a
\* backslash and texts with characters the encoding does not map included,
\* FontRef::raw_text_width returns what FontSource::raw_text_width returns.
C29_WidthsAgree ==
    returned.op = "both" => returned.fontref = returned.source

\* ------------------------------------------------ the objects of one page
\* A step of a render_page call that returned Ok.
RenderOkStep ==
    /\ phase = "open"
    /\ Len(calls') = Len(calls) + 1
    /\ calls'[Len(calls')].ok
\* The fonts of the call of the step that had no object before it.
NewFonts == DOMAIN calls'[Len(calls')].fonts \ DOMAIN font_object_ids
\* The IDs of the object headers the step wrote, in the order of the output.
AddedIds == [i \in DOMAIN OfKind(Added, "obj") |-> OfKind(Added, "obj")[i].id]
\* The token after the m-th object header the step wrote.
AddedBody(m) ==
    Added[(CHOOSE i \in Idx(Added, "obj") :
               Cardinality({j \in Idx(Added, "obj") : j <= i}) = m) + 1]

====
